---- MODULE Spec2Model ----
(***************************************************************************)
(* A model of the scrapeshifter lead-enrichment pipeline.                  *)
(*                                                                         *)
(* Part I   the contract pipeline engine (PipelineEngine.run,              *)
(*          PipelineContext) running a route of stations over one lead.    *)
(*                                                                         *)
(* Part II  the request/result bridge: ChimeraStation.process dispatching  *)
(*          missions over Redis to the core worker loop                    *)
(*          (run_worker_swarm) and consuming the replies.                  *)
(*                                                                         *)
(* Money is counted in cents (0.05 -> 5, 0.15 -> 15, 5.0 -> 500); the      *)
(* sums the engine forms are then exact, the rounding of binary floating   *)
(* point is not modelled.                                                  *)
(***************************************************************************)
EXTENDS Integers, Sequences, FiniteSets, Bags, TLC

(***************************************************************************)
(* Bounds of the model.                                                    *)
(***************************************************************************)
\* Longest route the engine is given.
MaxRoute == 3

\* Missions dispatched, all pipelines together, in one behaviour.
MaxMissions == 2

\* Telemetry entries a worker pushes for one mission.
MaxTelemetry == 3

\* Calls of record_data_point in one behaviour.
MaxPoints == 4
MaxLen == 2

(***************************************************************************)
(* The lead record: a map from keys to values.  A key may be absent, or    *)
(* present holding null (JSON null / None), or present holding a value.    *)
(***************************************************************************)
Absent == "absent"
Null == "null"

Keys ==
    {"name", "firstName", "lastName", "city", "state",
     "linkedinUrl", "phone", "carrier", "saved"}

\* A lead whose keys in S hold a value, whose keys in N hold null.
Lead(S, N) ==
    [k \in Keys |-> IF k \in S THEN "v" ELSE IF k \in N THEN Null ELSE Absent]

\* Python truthiness of data.get(k).
Truthy(v) == v \notin {Absent, Null, ""}

\* The delta a station returns: a map over the keys it sets.
EmptyDelta == [k \in {} |-> Null]

Delta(S, v) == [k \in S |-> v]

(***************************************************************************)
(* StopCondition values (types.py).                                        *)
(***************************************************************************)
CONTINUE == "continue"
SKIP_REMAINING == "skip_rest"
FAIL == "fail"

(***************************************************************************)
(* The stations of enrichment.py: name, required_inputs, cost_estimate.    *)
(***************************************************************************)
StationNames ==
    {"Identity Resolution", "Chimera Deep Search", "Skip-Tracing API",
     "Telnyx Gatekeep", "Database Save"}

RequiredInputs(s) ==
    CASE s = "Identity Resolution" -> {"name"}
      [] s = "Chimera Deep Search" -> {"linkedinUrl"}
      [] s = "Skip-Tracing API" -> {"firstName", "lastName", "city", "state"}
      [] s = "Telnyx Gatekeep" -> {"phone"}
      [] s = "Database Save" -> {"linkedinUrl"}

\* cost_estimate in cents.
CostEstimate(s) ==
    CASE s = "Identity Resolution" -> 0
      [] s = "Chimera Deep Search" -> 5
      [] s = "Skip-Tracing API" -> 15
      [] s = "Telnyx Gatekeep" -> 1
      [] s = "Database Save" -> 0

\* What a station hands back to the engine: a returned (delta, condition),
\* a raised ChimeraEnrichmentError ("structured"), or any other exception
\* ("untyped").
Ret(d, c) == [kind |-> "return", delta |-> d, condition |-> c]
Raise(k) == [kind |-> k, delta |-> EmptyDelta, condition |-> FAIL]

\* resolve_identity: the delta always carries firstName, lastName, city,
\* state and linkedinUrl, empty strings where nothing could be parsed.
IdentityDelta(data, place) ==
    [k \in {"firstName", "lastName", "city", "state", "linkedinUrl"} |->
        IF k \in {"firstName", "lastName"} THEN "v"
        ELSE IF k \in {"city", "state"} THEN place
        ELSE IF data[k] = Absent THEN "" ELSE data[k]]

IdentityProcess(data) ==
    IF ~(Truthy(data["name"]) \/ Truthy(data["firstName"]) \/ Truthy(data["lastName"]))
    THEN { Ret(EmptyDelta, FAIL), Raise("structured") }
    ELSE { Ret(EmptyDelta, FAIL),
           Ret(IdentityDelta(data, "v"), CONTINUE),
           Ret(IdentityDelta(data, ""), CONTINUE),
           Raise("structured") }

ChimeraProcess(data) ==
    IF ~Truthy(data["linkedinUrl"]) \/ ~(Truthy(data["name"]) \/ Truthy(data["firstName"]) \/ Truthy(data["lastName"]))
    THEN { Ret(EmptyDelta, FAIL) }
    ELSE { Ret(EmptyDelta, CONTINUE),
           Ret(Delta({"phone"}, "v"), CONTINUE),
           Raise("untyped") }

SkipTracingProcess(data) ==
    IF Truthy(data["phone"])
    THEN { Ret(EmptyDelta, CONTINUE) }
    ELSE { Ret(Delta({"phone"}, "v"), CONTINUE),
           Ret(EmptyDelta, FAIL),
           Raise("structured") }

TelnyxProcess(data) ==
    IF ~Truthy(data["phone"])
    THEN { Ret(EmptyDelta, FAIL) }
    ELSE { Ret(Delta({"carrier"}, "v"), SKIP_REMAINING),
           Ret(Delta({"carrier"}, "v"), CONTINUE),
           Ret(EmptyDelta, CONTINUE) }

DatabaseSaveProcess(data) ==
    { Ret(Delta({"saved"}, "true"), CONTINUE),
      Ret(Delta({"saved"}, "false"), FAIL),
      Raise("structured") }

ProcessOutcomes(s, data) ==
    CASE s = "Identity Resolution" -> IdentityProcess(data)
      [] s = "Chimera Deep Search" -> ChimeraProcess(data)
      [] s = "Skip-Tracing API" -> SkipTracingProcess(data)
      [] s = "Telnyx Gatekeep" -> TelnyxProcess(data)
      [] s = "Database Save" -> DatabaseSaveProcess(data)

(***************************************************************************)
(* PipelineContext (types.py).                                             *)
(***************************************************************************)
AvailableFields(data) == {k \in Keys : data[k] # Absent}

CanAfford(total, estimated, limit) == total + estimated <= limit

\* dict.update
MergeData(data, new_data) ==
    [k \in Keys |-> IF k \in DOMAIN new_data THEN new_data[k] ELSE data[k]]

\* A context that would keep a failed station's delta out of the data.
UpdatedDataUnlessFail(data, new_data, status) ==
    IF status = FAIL THEN data ELSE MergeData(data, new_data)

\* PipelineContext.update, the data part: whatever the status, a non-empty
\* new_data is merged.
UpdatedData(data, new_data, status) ==
    IF DOMAIN new_data # {} THEN MergeData(data, new_data) ELSE data

HistoryEntry(station_name, cost, status, error) ==
    [station |-> station_name, cost |-> cost, status |-> status, error |-> error]

(***************************************************************************)
(* PipelineStation.execute: the wrapper the engine calls around process.   *)
(* It declines a station whose required_inputs are not all among the       *)
(* available fields ("missing prerequisites", the route goes on), declines *)
(* a station the context cannot afford ("budget exhausted", the route      *)
(* ends), and otherwise invokes process and hands on what it returns or    *)
(* raises.  A declined station reaches the engine as a returned            *)
(* (empty delta, condition), the only outcomes engine.run distinguishes.   *)
(***************************************************************************)
Declined(reason, condition) ==
    [kind |-> "return", delta |-> EmptyDelta, condition |-> condition,
     invoked |-> FALSE, reason |-> reason]

Invoked(o) ==
    [kind |-> o.kind, delta |-> o.delta, condition |-> o.condition,
     invoked |-> TRUE, reason |-> ""]

MissingPrerequisites(s, data) == RequiredInputs(s) \ AvailableFields(data)

Execute(s, data, total, limit) ==
    IF MissingPrerequisites(s, data) # {}
    THEN { Declined("missing prerequisites", FAIL) }
    ELSE IF ~CanAfford(total, CostEstimate(s), limit)
         THEN { Declined("budget exhausted", SKIP_REMAINING) }
         ELSE { Invoked(o) : o \in ProcessOutcomes(s, data) }

NoOutcome == Declined("", "none")

(***************************************************************************)
(* PipelineEngine.run (engine.py).                                         *)
(***************************************************************************)
VARIABLES
    route,          \* self.route: the stations, in order
    budget_limit,   \* self.budget_limit, cents
    has_sink,       \* progress_queue is not None
    data,           \* ctx.data
    total_cost,     \* ctx.total_cost, cents
    history,        \* ctx.history
    errors,         \* ctx.errors
    progress,       \* the events put on progress_queue
    i,              \* iterations of the station loop completed
    pc,             \* "loop" | "execute" | "break" | "done"
    started,        \* stations whose iteration has begun
    invoked,        \* indices of the stations whose process was invoked
    last,           \* what execute handed back in the latest iteration
    final           \* the record run() returns

engineVars ==
    <<route, budget_limit, has_sink, data, total_cost, history, errors,
      progress, i, pc, started, invoked, last, final>>

VARIABLES
    missions,       \* the list chimera:missions, head first
    results,        \* the lists chimera:results:{key}, head first
    mstatus,        \* the status field of the hashes mission:{id}
    dlq,            \* the list chimera:missions:failed
    pipe,           \* each pipeline's ChimeraStation.process invocation
    worker,         \* each core worker loop
    dispatched,     \* log: every mission LPUSHed, with the pipeline that did
    consumed,       \* log: every reply a pipeline popped
    recorded        \* log: every record_result call

bridgeVars ==
    <<missions, results, mstatus, dlq, pipe, worker, dispatched, consumed, recorded>>

VARIABLES
    lead,           \* ctx.data of one ChimeraStation.process invocation
    paused,         \* the key SYSTEM_STATE:PAUSED is set
    blacklist,      \* the TTL of each key blacklist:provider:{name}, 0 when absent
    st,             \* the locals of that invocation, and what it has seen
    pushes          \* log: the missions that invocation LPUSHed, in order

stationVars == <<lead, paused, blacklist, st, pushes>>

VARIABLES
    poison,         \* the sets poison:p:{provider}:{type}:{hash}
    points,         \* log: the data points handed to record_data_point
    call,           \* the latest call of record_data_point and its result
    routed,         \* the latest call of the router and the provider it gave
    consensus,      \* two replies for one lead and the delta built from them
    cmp             \* a call of _norm_comp: its arguments and its result

shieldVars == <<poison, points, call, routed, consensus, cmp>>

VARIABLES
    leads_to_enrich,    \* the list leads_to_enrich, head first
    failed_leads,       \* the list failed_leads, head first
    qworker,            \* worker_loop: its position, the payload popped, retry_count
    qlog,               \* log: per payload, the pops and where each ended
    loader,             \* one BlueprintLoaderStation.process invocation and the store it reads
    run_store,          \* the hashes enrich:run:{run_id}
    run_task,           \* the _background_run tasks, each with its generator
    stream,             \* the latest response of /worker/process-one-stream
    automap,            \* the attempt_auto_map calls and the keys auto_map:last:{domain}
    telemetry,          \* a mission's list chimera:telemetry:{id} and its consumer
    retry_op,           \* a DLQ retry request in progress
    guard,              \* the balance and latency checks that set SYSTEM_STATE:PAUSED
    recorder            \* the record_data_point calls in progress, one per caller

queueVars == <<leads_to_enrich, failed_leads, qworker, qlog>>

apiVars == <<loader, run_store, run_task, stream>>

auxVars == <<automap, telemetry, retry_op, guard, recorder>>

serviceVars == <<queueVars, apiVars, auxVars>>

vars == <<engineVars, bridgeVars, stationVars, shieldVars, serviceVars>>

\* The variables the engine never touches.
engineFrame == <<bridgeVars, stationVars, shieldVars, serviceVars>>

(***************************************************************************)
(* The Redis store of the bridge and the processes using it.               *)
(***************************************************************************)
Pipelines == {"p1", "p2"}
Workers == {"w1"}

\* validator.py MAGAZINE, in order.
MAGAZINE ==
    <<"FastPeopleSearch", "TruePeopleSearch", "ZabaSearch",
      "SearchPeopleFree", "ThatsThem", "AnyWho">>

Providers == {MAGAZINE[n] : n \in 1..Len(MAGAZINE)}

NoProvider == "none"

\* Mission ids; 0 stands for "no mission".
Ids == 1..MaxMissions

\* A mission payload carries the lead of the pipeline that sent it
\* (enrichment.py 287-298); a reply carries what was found for that lead.
NoLead == "none"
NoMission == [mission_id |-> 0, target_provider |-> NoProvider, lead |-> NoLead]
NoReply == [for |-> 0, lead |-> NoLead, status |-> "none"]

PipeLocals(start) ==
    [pc |-> start, high_value |-> FALSE, tried |-> {}, provider |-> NoProvider,
     failed_provider |-> NoProvider, mission_id |-> 0, raw |-> NoReply,
     data |-> NoReply, second |-> NoProvider, mission_id2 |-> 0,
     out |-> {}, returned |-> "none"]

WorkerLocals == [pc |-> "pop", mission |-> NoMission]

\* An empty store; every pipeline at `start`.
BridgeStart(start) ==
    /\ missions = <<>>
    /\ results = [k \in Ids |-> <<>>]
    /\ mstatus = [m \in Ids |-> "none"]
    /\ dlq = <<>>
    /\ pipe = [p \in Pipelines |-> PipeLocals(start)]
    /\ worker = [w \in Workers |-> WorkerLocals]
    /\ dispatched = {}
    /\ consumed = EmptyBag
    /\ recorded = EmptyBag

\* validator.py BLACKLIST_TTL, seconds.
BLACKLIST_TTL == 14400

\* enrichment.py PAUSE_POLL_SEC, PAUSE_WAIT_MAX, seconds.
PAUSE_POLL_SEC == 15
PAUSE_WAIT_MAX == 120

\* The fields of ctx.data that ChimeraStation.process reads.
StationLead(url, name, fullName, firstName, lastName, company, title) ==
    [linkedinUrl |-> url, name |-> name, fullName |-> fullName,
     firstName |-> firstName, lastName |-> lastName,
     company |-> company, title |-> title]

NoStationLead == StationLead(Null, Null, Null, Null, Null, Null, Null)

\* The locals of ChimeraStation.process.  sleeps counts the asyncio.sleep
\* calls of the pause gate; began_paused, was_clear and read_failed remember
\* whether the flag was set when the invocation began, whether it has been
\* clear at any moment since, and whether a read of it raised.  results
\* and carriers are the calls of record_result and record_carrier_result
\* in order, kind is how the latest wait ended.
StationLocals(start, flag) ==
    [pc |-> start, waited |-> 0, sleeps |-> 0, tried |-> {},
     provider |-> NoProvider, failed_provider |-> NoProvider, second |-> NoProvider,
     out |-> {}, returned |-> "none", skipped |-> FALSE,
     outcomes |-> {}, results |-> <<>>, carriers |-> <<>>, kind |-> "none",
     began_paused |-> flag, was_clear |-> ~flag, read_failed |-> FALSE]

\* No station invocation, no flag, no blacklist.
StationOff ==
    /\ lead = NoStationLead
    /\ paused = FALSE
    /\ blacklist = [P \in Providers |-> 0]
    /\ st = StationLocals("off", FALSE)
    /\ pushes = <<>>

\* Python values: None, a string (its characters in order) or a number.
PyNone == [t |-> "none", s |-> <<>>, n |-> 0]
PyStr(s) == [t |-> "str", s |-> s, n |-> 0]
PyNum(n) == [t |-> "num", s |-> <<>>, n |-> n]

\* record_data_point(provider, data_type, value, lead_id) and what it
\* returned; count numbers the calls.
DataPointCall(count, provider, data_type, value, lead_id, ret) ==
    [count |-> count, provider |-> provider, data_type |-> data_type,
     value |-> value, lead_id |-> lead_id, ret |-> ret]

NoCall == DataPointCall(0, NoProvider, "none", PyNone, "none", "none")

\* A call of select_provider or get_next_provider and what it returned.
RouterCall(fn, tried, ret) == [fn |-> fn, tried |-> tried, ret |-> ret]

NoRouted == RouterCall("none", {}, NoProvider)

\* A key the reply does not hold.
NoKey == [t |-> "nokey", s |-> <<>>, n |-> 0]

\* A reply of the worker, as json.loads hands it to the station.
\* Confidences are in hundredths.
Reply(status, phone, email, age, vision_confidence, confidence) ==
    [status |-> status, phone |-> phone, email |-> email, age |-> age,
     vision_confidence |-> vision_confidence, confidence |-> confidence]

NoData == Reply("none", NoKey, NoKey, NoKey, NoKey, NoKey)

\* The success path of ChimeraStation.process: the first reply, the second
\* one, the keys of the delta, and what results_differ_significantly gave
\* when it was called.
Consensus(at, high, first, second, delta) ==
    [pc |-> at, high_value |-> high, data |-> first, data2 |-> second, out |-> delta,
     differ |-> "none"]

NoConsensus == Consensus("off", FALSE, NoData, NoData, {})

\* _norm_comp(a, b), its result, the digit-only form of a and the
\* digit-only form of that.
NormComp(at, a, b, ret, da, dda) ==
    [pc |-> at, a |-> a, b |-> b, ret |-> ret, da |-> da, dda |-> dda]

NoCmp == NormComp("off", <<>>, <<>>, "none", <<>>, <<>>)

\* No poison set, no validator or router call.
ShieldOff ==
    /\ poison = {}
    /\ points = {}
    /\ call = NoCall
    /\ routed = NoRouted
    /\ consensus = NoConsensus
    /\ cmp = NoCmp

\* redis_queue_worker.py 30.
MAX_RETRIES == 3

\* A payload of leads_to_enrich: what json.loads makes of it ("object",
\* "array", or "invalid" when it raises), the lead's linkedinUrl and name,
\* and a tag that tells two leads of one name apart.
QLead(json, linkedinUrl, name, tag) ==
    [json |-> json, linkedinUrl |-> linkedinUrl, name |-> name, tag |-> tag]

NoPayload == QLead("none", Null, Null, "")

Payloads ==
    {QLead("object", Null, "Ann", "x"), QLead("object", Null, "Ann", "y"),
     QLead("object", "u1", "Bob", "x"),
     QLead("invalid", Null, Null, "x"), QLead("array", Null, Null, "x")}

\* redis_queue_worker.py 218: lead_id.
LeadKey(l) ==
    IF l.linkedinUrl \notin {Null, ""} THEN l.linkedinUrl
    ELSE IF l.name = Null THEN "unknown" ELSE l.name

LeadKeys == {LeadKey(l) : l \in {x \in Payloads : x.json = "object"}}

\* The locals of worker_loop; retry_count[k] = 0 stands for a key the
\* dict does not hold.  restarts counts the restarts of the loop.
QWorker(at, lead_json, retry_count, restarts) ==
    [pc |-> at, lead_json |-> lead_json, retry_count |-> retry_count, restarts |-> restarts]

\* Per payload: the times it was popped, handed to process_lead, counted
\* as a success, pushed back onto leads_to_enrich, pushed onto failed_leads.
NoQLog ==
    [pops |-> [l \in Payloads |-> 0], attempts |-> [l \in Payloads |-> 0],
     succeeded |-> [l \in Payloads |-> 0], requeued |-> [l \in Payloads |-> 0],
     dead |-> [l \in Payloads |-> 0]]

\* A blueprint hash of the store: whether the key exists, and what
\* json.loads makes of its data (or blueprint_json) field and of its
\* instructions field; "none" for a field the hash does not hold.  of
\* names the blueprint a data field that parses is the dump of: "stored"
\* for one that was there from the start.
Hash(exists, blueprint_json, instructions) ==
    [exists |-> exists, data |-> blueprint_json, instructions |-> instructions,
     of |-> "stored"]

NoHash == Hash(FALSE, "none", "none")

\* The delta of the loader.
NoDelta == [_blueprint |-> "none", _blueprint_domain |-> "none", _mapping_required |-> "none"]

\* The locals of BlueprintLoaderStation.process, the two hashes of the
\* domain, the messages on dojo:alerts and the set
\* dojo:domains_need_mapping.
Loader(at, current, legacy) ==
    [pc |-> at, current |-> current, legacy |-> legacy, domain |-> "none",
     out |-> NoDelta, returned |-> "none", alerts |-> {}, need_mapping |-> {},
     committed |-> "none"]

\* No loader invocation.
LoaderOff == loader = Loader("off", NoHash, NoHash)

\* An NDJSON line: the keys the final event is read by; Absent for a key
\* the event does not carry.  failure_at is
\* Null when the key holds None.
Line(event, done, processed, success, failure_mode, failure_at, hint) ==
    [event |-> event, done |-> done, processed |-> processed, success |-> success,
     failure_mode |-> failure_mode, failure_at |-> failure_at, hint |-> hint]

\* main.py 474: progress "{}".
NoLine == Line(Absent, Absent, Absent, Absent, Absent, Absent, Absent)

\* _process_one_stream_gen: where it is suspended and the state of the
\* task that runs process_lead_with_steps in a thread.
Gen(at, task) == [pc |-> at, task |-> task]

NoGen == Gen("none", "none")

\* A hash enrich:run:{run_id}; status "none" when the key is absent.
RunRecord(status, latest, result, error) ==
    [status |-> status, progress |-> latest, result |-> result, error |-> error]

NoRun == RunRecord("none", NoLine, NoLine, "none")

RunIds == {"r1", "r2"}

\* A _background_run task and what process_one_status last answered for
\* its run.
RunTask(at, gen, polled) == [pc |-> at, gen |-> gen, polled |-> polled]

\* A response of /worker/process-one-stream: the lines sent so far and
\* whether the body is complete.
Response(gen, events, open) == [gen |-> gen, events |-> events, open |-> open]

\* The callers of attempt_auto_map for one domain: two station runs and
\* the auto-map endpoint.
Callers == {"run1", "run2", "api"}

\* The key auto_map:last:{domain}, each caller's attempt_auto_map call
\* (where it is and the status it returned), and the number of calls that
\* passed the rate check since the key was last absent by expiry.
AutoMap(rate, attempt, passed) == [rate |-> rate, attempt |-> attempt, passed |-> passed]

Attempt(at, status) == [pc |-> at, status |-> status]

AutoMapOff == automap = AutoMap(FALSE, [a \in Callers |-> Attempt("off", "none")], 0)

\* The list chimera:telemetry:{mission_id} of one mission, the station's
\* wait for that mission's reply (wait), the consumer task (consumer), its
\* blpop call in a thread (polling), and two logs: how many entries the
\* worker has produced, numbered in that order, and the entries emitted
\* to the progress queue, in order.
Telemetry(wait, consumer, polling, list, produced, emitted) ==
    [wait |-> wait, consumer |-> consumer, polling |-> polling, list |-> list,
     produced |-> produced, emitted |-> emitted]

TelemetryOff == telemetry = Telemetry("off", "none", FALSE, <<>>, 0, <<>>)

\* One DLQ retry request: which endpoint (kind), where it is (at), the
\* index asked for, what LRANGE returned (read), how far retry_all's loop
\* is (n), the HTTP status returned; with it the leads the queue worker
\* holds and will push onto failed_leads (held), and the leads there were
\* when the request began (leads).
RetryOp(kind, at, index, read, n, status, held, leads) ==
    [kind |-> kind, at |-> at, index |-> index, read |-> read, n |-> n,
     status |-> status, held |-> held, leads |-> leads]

RetryOff == retry_op = RetryOp("off", "off", 0, <<>>, 0, 0, {}, {})

\* capsolver.py MIN_BALANCE, dollars, and get_balance's return, whole
\* dollars (0 also when the balance request failed, capsolver.py 50-52).
MIN_BALANCE == 1
Balances == {0, 1, 2}

\* vision_service.py VLM_LATENCY_GUARD_SEC, seconds, and the inference
\* times looked at.
VLM_LATENCY_GUARD_SEC == 10
Latencies == {9, 10, 11}

\* One solve_recaptcha_v2 call (solve: where it is; bal: what get_balance
\* returned), and what the core worker's gate has seen: how often each
\* mission passed the gate, which missions it put back, and which were
\* executing when the flag was set.
Guard(solve, bal, created, passes, requeued, caught) ==
    [solve |-> solve, bal |-> bal, created |-> created, passes |-> passes,
     requeued |-> requeued, caught |-> caught]

GuardStart(solve) == Guard(solve, 0, FALSE, [m \in Ids |-> 0], {}, {})

GuardOff == guard = GuardStart("off")

\* The callers of record_data_point: pipelines of different workers.
Recorders == {"k1", "k2"}

\* One record_data_point call: its arguments, the SCARD it read, what it
\* returned.
Recording(at, provider, data_type, value, lead_id, n, ret) ==
    [pc |-> at, provider |-> provider, data_type |-> data_type, value |-> value,
     lead_id |-> lead_id, n |-> n, ret |-> ret]

NoRecording(at) == Recording(at, NoProvider, "none", PyNone, "none", 0, "none")

RecorderOff == recorder = [k \in Recorders |-> NoRecording("off")]

AuxOff == AutoMapOff /\ TelemetryOff /\ RetryOff /\ GuardOff /\ RecorderOff

\* No runs and no response.
RunsOff ==
    /\ run_store = [r \in RunIds |-> NoRun]
    /\ run_task = [r \in RunIds |-> RunTask("off", NoGen, "none")]
    /\ stream = Response(NoGen, <<>>, FALSE)

\* No queue worker and empty queues.
QueueOff ==
    /\ failed_leads = <<>>
    /\ qworker = QWorker("off", NoPayload, [k \in LeadKeys |-> 0], 0)
    /\ qlog = NoQLog

ServiceOff ==
    /\ leads_to_enrich = <<>>
    /\ QueueOff
    /\ LoaderOff
    /\ RunsOff
    /\ AuxOff

\* The leads a run starts from, as ctx.data holds them once the working
\* name is derived (engine.py 54-59).
InitialLeads ==
    { Lead({"name", "linkedinUrl"}, {}),
      Lead({"name"}, {}),
      Lead({"linkedinUrl"}, {"name", "phone"}),
      Lead({"name", "firstName", "lastName", "city", "state", "linkedinUrl", "phone"}, {}) }

\* Budgets: 0.10 and the default 5.00.
BudgetLimits == {10, 500}

Routes == UNION { [1..n -> StationNames] : n \in 1..MaxRoute }

NotReturned ==
    [returned |-> FALSE, data |-> Lead({}, {}), cost |-> 0,
     stations_executed |-> 0, errors |-> 0]

Init ==
    /\ route \in Routes
    /\ budget_limit \in BudgetLimits
    /\ has_sink \in BOOLEAN
    /\ data \in InitialLeads
    /\ total_cost = 0
    /\ history = <<>>
    /\ errors = <<>>
    /\ progress = <<>>
    /\ i = 0
    /\ pc = "loop"
    /\ started = 0
    /\ invoked = <<>>
    /\ last = NoOutcome
    /\ final = NotReturned
    /\ BridgeStart("off")
    /\ StationOff
    /\ ShieldOff
    /\ ServiceOff

Station == route[i + 1]

Event(status) == [step |-> i + 1, station |-> Station, status |-> status]

\* progress_queue.put_nowait(ev) if a sink is attached.
Put(q, ev) == IF has_sink THEN Append(q, ev) ELSE q

\* An engine that would emit the raw condition value.
TerminalStatusRaw(condition) == condition

\* engine.py 77
TerminalStatus(condition) ==
    IF condition = CONTINUE THEN "ok"
    ELSE IF condition = SKIP_REMAINING THEN "stop" ELSE "fail"

\* engine.py 86
ActualCost(s) == CostEstimate(s)

\* An engine that would not stop at SKIP_REMAINING.
BreaksLoopNever(condition) == FALSE

\* engine.py 88-90
BreaksLoop(condition) == condition = SKIP_REMAINING

\* What the two except branches do to ctx.history (engine.py 95-133): nothing.
HistoryOnRaise(h, s) == h

\* engine.py 65-73: the loop takes the next station and announces it.
StartStation ==
    /\ pc = "loop"
    /\ i < Len(route)
    /\ progress' = Put(progress, Event("running"))
    /\ started' = started + 1
    /\ pc' = "execute"
    /\ UNCHANGED <<route, budget_limit, has_sink, data, total_cost, history,
                   errors, i, invoked, last, final>>
    /\ UNCHANGED engineFrame

\* engine.py 75-94: execute returned (result_data, condition).
StationReturns ==
    /\ pc = "execute"
    /\ \E o \in Execute(Station, data, total_cost, budget_limit) :
        /\ o.kind = "return"
        /\ last' = o
        /\ invoked' = IF o.invoked THEN Append(invoked, i + 1) ELSE invoked
        /\ progress' = Put(progress, Event(TerminalStatus(o.condition)))
        /\ data' = UpdatedData(data, o.delta, o.condition)
        /\ total_cost' = total_cost + ActualCost(Station)
        /\ history' = Append(history,
                HistoryEntry(Station, ActualCost(Station), o.condition, Null))
        /\ errors' = IF o.reason # "" THEN Append(errors, o.reason) ELSE errors
        /\ pc' = IF BreaksLoop(o.condition) THEN "break" ELSE "loop"
    /\ i' = i + 1
    /\ UNCHANGED <<route, budget_limit, has_sink, started, final>>
    /\ UNCHANGED engineFrame

\* engine.py 95-117: execute raised ChimeraEnrichmentError.
StationRaisesStructured ==
    /\ pc = "execute"
    /\ \E o \in Execute(Station, data, total_cost, budget_limit) :
        /\ o.kind = "structured"
        /\ last' = o
        /\ invoked' = Append(invoked, i + 1)
    /\ progress' = Put(progress, Event("fail"))
    /\ errors' = Append(errors, "reason (step)")
    /\ history' = HistoryOnRaise(history, Station)
    /\ i' = i + 1
    /\ pc' = "loop"
    /\ UNCHANGED <<route, budget_limit, has_sink, data, total_cost, started, final>>
    /\ UNCHANGED engineFrame

\* engine.py 118-133: execute raised any other exception.
StationRaisesUntyped ==
    /\ pc = "execute"
    /\ \E o \in Execute(Station, data, total_cost, budget_limit) :
        /\ o.kind = "untyped"
        /\ last' = o
        /\ invoked' = Append(invoked, i + 1)
    /\ progress' = Put(progress, Event("fail"))
    /\ errors' = Append(errors, "str(e)")
    /\ history' = HistoryOnRaise(history, Station)
    /\ i' = i + 1
    /\ pc' = "loop"
    /\ UNCHANGED <<route, budget_limit, has_sink, data, total_cost, started, final>>
    /\ UNCHANGED engineFrame

\* engine.py 135-146: the loop is over (exhausted or broken); return.
FinalData ==
    [returned |-> TRUE, data |-> data, cost |-> total_cost,
     stations_executed |-> Len(history), errors |-> Len(errors)]

Return ==
    /\ \/ pc = "loop" /\ i = Len(route)
       \/ pc = "break"
    /\ final' = FinalData
    /\ pc' = "done"
    /\ UNCHANGED <<route, budget_limit, has_sink, data, total_cost, history,
                   errors, progress, i, started, invoked, last>>
    /\ UNCHANGED engineFrame

Next ==
    \/ StartStation
    \/ StationReturns
    \/ StationRaisesStructured
    \/ StationRaisesUntyped
    \/ Return

Spec == Init /\ [][Next]_vars

(***************************************************************************)
(* Claims about the engine, checked under Spec.                            *)
(***************************************************************************)
\* The iteration of the station loop that is ending in this step.
StationEnds == pc = "execute" /\ pc' # "execute"

\* C1: in every reachable state of a run total_cost <= budget_limit: a
\* station whose cost_estimate would push total_cost above budget_limit
\* never has its cost added.
C1_TotalCostWithinBudget == total_cost <= budget_limit

\* C2: a station reached with total_cost + cost_estimate > budget_limit is
\* not invoked, "budget exhausted" is put in the error list, the run ends
\* (no later station starts), and the declined station leaves no entry in
\* history (with costs 0, 5, 15 and budget 10 history has length 2).
C2_BudgetExhaustionEndsRun ==
    last.reason = "budget exhausted" =>
        /\ ~last.invoked
        /\ \A n \in 1..Len(invoked) : invoked[n] # i
        /\ \E n \in 1..Len(errors) : errors[n] = "budget exhausted"
        /\ pc \in {"break", "done"}
        /\ started = i
        /\ Len(history) <= i - 1

\* C3: once a station returns SKIP_REMAINING its entry is the last one of
\* history, no later station is started or invoked, and the run returns
\* the final record with the data gathered so far.
C3_SkipRemainingEndsRun ==
    /\ \A j \in 1..Len(history) :
           history[j].status = SKIP_REMAINING =>
               /\ j = Len(history)
               /\ history[j].station = route[i]
               /\ pc \in {"break", "done"}
               /\ started = i
               /\ \A n \in 1..Len(invoked) : invoked[n] <= i
    /\ (last.kind = "return" /\ last.condition = SKIP_REMAINING) =>
           /\ Len(history) > 0
           /\ history[Len(history)].status = SKIP_REMAINING
    /\ pc = "done" =>
           /\ final.returned
           /\ final.data = data
           /\ final.stations_executed = Len(history)

\* C3 happens: a station that was invoked returned SKIP_REMAINING before the
\* end of the route, and the run has returned.
C3_Witness ==
    /\ pc = "done"
    /\ last.invoked
    /\ last.condition = SKIP_REMAINING
    /\ i < Len(route)
    /\ i > 1

\* C4: len(history) is the number of stations that have started, stations
\* that raised included, and _pipeline_stations_executed is that number.
C4_HistoryCountsStarted ==
    /\ pc \in {"loop", "break", "done"} => Len(history) = started
    /\ pc = "execute" => Len(history) = started - 1
    /\ final.returned => final.stations_executed = started

\* C5: when a station returns (delta, FAIL) the delta is not merged
\* (ctx.data is unchanged), the station is appended to history and the
\* engine goes on to the next station.
C5_FailDeltaNotMerged ==
    [][(StationEnds /\ last'.kind = "return" /\ last'.condition = FAIL) =>
          /\ data' = data
          /\ Len(history') = Len(history) + 1
          /\ pc' = "loop"]_vars

\* C5 as amended: when a station returns (delta, FAIL) the delta is merged
\* into ctx.data as for any other return, the station is appended to
\* history with status fail, and the engine goes on to the next station.
C5_FailDeltaMerged ==
    [][(StationEnds /\ last'.kind = "return" /\ last'.condition = FAIL) =>
          /\ \A k \in Keys :
                data'[k] = IF k \in DOMAIN last'.delta THEN last'.delta[k] ELSE data[k]
          /\ Len(history') = Len(history) + 1
          /\ history'[Len(history')].station = Station
          /\ history'[Len(history')].status = FAIL
          /\ SubSeq(history', 1, Len(history)) = history
          /\ pc' = "loop"
          /\ i' = i + 1]_vars

\* C5 happens: Database Save returned ({saved: false}, FAIL) and the run
\* went on.
C5_Witness ==
    /\ last.kind = "return"
    /\ last.condition = FAIL
    /\ last.invoked
    /\ DOMAIN last.delta = {"saved"}
    /\ data["saved"] = "false"
    /\ i < Len(route)
    /\ pc = "execute"

\* C6: if a key of the station's required_inputs is missing or null, process
\* is not invoked, ctx.data and total_cost are unchanged, a fail is
\* recorded and the engine goes on to the next station.
C6_MissingPrerequisiteFrame ==
    [][(StationEnds /\ \E k \in RequiredInputs(Station) : data[k] \in {Absent, Null}) =>
          /\ invoked' = invoked
          /\ data' = data
          /\ total_cost' = total_cost
          /\ last'.condition = FAIL
          /\ pc' = "loop"]_vars

\* C7: a station that raises never aborts the run: the engine goes on to
\* the next station and the failure is captured both in an entry of history
\* for that station and in the error list; the record returned holds the
\* data, _pipeline_cost, _pipeline_stations_executed and _pipeline_errors.
C7_RaiseIsCaptured ==
    [][/\ (StationEnds /\ last'.kind \in {"structured", "untyped"}) =>
            /\ pc' = "loop"
            /\ data' = data
            /\ Len(errors') = Len(errors) + 1
            /\ Len(history') = Len(history) + 1
            /\ history'[Len(history')].station = Station
            /\ history'[Len(history')].status = FAIL
       /\ (pc' = "done") =>
            /\ final'.returned
            /\ final'.data = data
            /\ final'.cost = total_cost
            /\ final'.stations_executed = Len(history)
            /\ final'.errors = Len(errors)]_vars

\* C8: with a progress sink attached every station that starts yields one
\* "running" event followed, before the next "running" event, by one
\* terminal event with status ok, stop or fail, however the station ends;
\* stations appear in route order; nothing is emitted after a stop.
C8_ProgressEventsPaired ==
    has_sink =>
        /\ Len(progress) = 2 * i + (IF pc = "execute" THEN 1 ELSE 0)
        /\ started = i + (IF pc = "execute" THEN 1 ELSE 0)
        /\ \A j \in 1..Len(progress) :
              /\ progress[j].step = (j + 1) \div 2
              /\ progress[j].station = route[(j + 1) \div 2]
              /\ j % 2 = 1 => progress[j].status = "running"
              /\ j % 2 = 0 => progress[j].status \in {"ok", "stop", "fail"}
              /\ progress[j].status = "stop" => j = Len(progress)
        /\ (pc # "execute" /\ i > 0 /\ last.kind # "return") =>
              progress[Len(progress)].status = "fail"

\* C8 happens: with a sink, a station raised, a later one stopped the run
\* before the end of the route, and the run has returned.
C8_Witness ==
    /\ has_sink
    /\ pc = "done"
    /\ Len(progress) = 4
    /\ progress[2].status = "fail"
    /\ progress[4].status = "stop"
    /\ Len(invoked) = 2
    /\ Len(history) = 1
    /\ Len(route) = 3

(***************************************************************************)
(* Part II.  The request/result bridge.                                    *)
(*                                                                         *)
(* Each pipeline runs ChimeraStation.process once, from the provider loop  *)
(* on (enrichment.py 262-495); the core worker loop is run_worker_swarm    *)
(* (chimera-core/main.py 360-516).  Every Redis command is a step of its   *)
(* own; a BRPOP that times out is a step enabled while its list is empty.  *)
(* The worker sends JSON objects with status completed or failed.          *)
(***************************************************************************)
EngineIdle ==
    /\ route = <<>>
    /\ budget_limit = 500
    /\ has_sink = FALSE
    /\ data = Lead({}, {})
    /\ total_cost = 0
    /\ history = <<>>
    /\ errors = <<>>
    /\ progress = <<>>
    /\ i = 0
    /\ pc = "off"
    /\ started = 0
    /\ invoked = <<>>
    /\ last = NoOutcome
    /\ final = NotReturned

\* The variables the bridge never touches.
bridgeFrame == <<engineVars, stationVars, shieldVars, serviceVars>>

BridgeInit ==
    /\ EngineIdle
    /\ missions = <<>>
    /\ results = [k \in Ids |-> <<>>]
    /\ mstatus = [m \in Ids |-> "none"]
    /\ dlq = <<>>
    /\ pipe \in [Pipelines -> {[PipeLocals("select") EXCEPT !.high_value = h] : h \in BOOLEAN}]
    /\ worker = [w \in Workers |-> WorkerLocals]
    /\ dispatched = {}
    /\ consumed = EmptyBag
    /\ recorded = EmptyBag
    /\ StationOff
    /\ ShieldOff
    /\ ServiceOff

\* LPUSH puts at the head, BRPOP takes from the tail.
LPush(list, x) == <<x>> \o list
Tail1(list) == list[Len(list)]
Front(list) == SubSeq(list, 1, Len(list) - 1)

UsedIds == {d.mission_id : d \in dispatched}

\* A mission id taken from the clock's second, as the worker's fallback id is.
NewMissionIdFromClock(used) == 1

\* str(uuid.uuid4()): an id no mission was given before.
NewMissionId(used) ==
    CHOOSE id \in Ids : id \notin used /\ \A j \in Ids \ used : id <= j

\* f"chimera:results:{mission_id}", as the station forms it (enrichment.py 286)
\* and as the worker forms it (main.py 418).
ResultsKey(mission_id) == mission_id
WorkerResultsKey(mission_id) == mission_id

\* router.select_provider: some provider of the Magazine not yet tried, the
\* fixed default when none is left.
SelectProvider(tried) ==
    IF Providers \ tried = {} THEN {"TruePeopleSearch"} ELSE Providers \ tried

\* router.get_next_provider: the next provider of the Magazine not yet
\* tried, none when all were.
GetNextProvider(failed, tried) ==
    IF Providers \ tried = {} THEN NoProvider
    ELSE MAGAZINE[CHOOSE n \in 1..Len(MAGAZINE) :
            /\ MAGAZINE[n] \notin tried
            /\ \A k \in 1..(n - 1) : MAGAZINE[k] \in tried]

RecordResult(provider, mission_id, success, why) ==
    [provider |-> provider, mission_id |-> mission_id, success |-> success, why |-> why]

\* The provider of the next attempt (enrichment.py 269-279): the router's
\* choice on the first attempt, the next after the failed one afterwards.
NextProviders(l) ==
    IF l.tried = {} THEN SelectProvider(l.tried)
    ELSE {GetNextProvider(l.failed_provider, l.tried)}

\* enrichment.py 269-313: a provider is chosen; with none left the station
\* returns with no delta; otherwise a mission with a fresh id is LPUSHed
\* and mission:{id} is set to queued.  The step ends at the BRPOP.
Dispatch(p) ==
    /\ pipe[p].pc = "select"
    /\ \E prov \in NextProviders(pipe[p]) :
        IF prov = NoProvider
        THEN /\ pipe' = [pipe EXCEPT ![p].returned = CONTINUE, ![p].pc = "done"]
             /\ UNCHANGED <<missions, dispatched, mstatus>>
        ELSE /\ Cardinality(dispatched) < MaxMissions
             /\ LET id == NewMissionId(UsedIds) IN
                 /\ missions' = LPush(missions, [mission_id |-> id, target_provider |-> prov, lead |-> p])
                 /\ dispatched' = dispatched \cup {[mission_id |-> id, by |-> p, n |-> Cardinality(dispatched) + 1]}
                 /\ mstatus' = [mstatus EXCEPT ![id] = "queued"]
                 /\ pipe' = [pipe EXCEPT ![p].provider = prov,
                                         ![p].tried = pipe[p].tried \cup {prov},
                                         ![p].mission_id = id,
                                         ![p].pc = "wait"]
    /\ UNCHANGED <<results, dlq, worker, consumed, recorded>>
    /\ UNCHANGED bridgeFrame

\* enrichment.py 321-324, 357-371: BRPOP returns the reply and it is parsed;
\* a payload that does not parse is a failure of the provider.
ReceiveReply(p) ==
    /\ pipe[p].pc = "wait"
    /\ LET key == ResultsKey(pipe[p].mission_id)
           reply == Tail1(results[key]) IN
        /\ results[key] # <<>>
        /\ results' = [results EXCEPT ![key] = Front(results[key])]
        /\ consumed' = consumed (+) SetToBag({[by |-> p, mission_id |-> pipe[p].mission_id, reply |-> reply]})
        /\ IF reply.status = "garbage"
           THEN /\ recorded' = recorded (+)
                        SetToBag({RecordResult(pipe[p].provider, pipe[p].mission_id, FALSE, "parse")})
                /\ mstatus' = [mstatus EXCEPT ![pipe[p].mission_id] = "failed"]
                /\ pipe' = [pipe EXCEPT ![p].raw = reply,
                                        ![p].failed_provider = pipe[p].provider,
                                        ![p].pc = "select"]
           ELSE /\ pipe' = [pipe EXCEPT ![p].raw = reply, ![p].data = reply,
                                        ![p].pc = "delete"]
                /\ UNCHANGED <<recorded, mstatus>>
    /\ UNCHANGED <<missions, dlq, worker, dispatched>>
    /\ UNCHANGED bridgeFrame

\* enrichment.py 345-355: BRPOP timed out (raw is None): the provider's
\* failure is recorded, mission:{id} is set to timeout, the loop goes on.
TimeoutReply(p) ==
    /\ pipe[p].pc = "wait"
    /\ results[ResultsKey(pipe[p].mission_id)] = <<>>
    /\ recorded' = recorded (+)
            SetToBag({RecordResult(pipe[p].provider, pipe[p].mission_id, FALSE, "timeout")})
    /\ mstatus' = [mstatus EXCEPT ![pipe[p].mission_id] = "timeout"]
    /\ pipe' = [pipe EXCEPT ![p].failed_provider = pipe[p].provider, ![p].pc = "select"]
    /\ UNCHANGED <<missions, results, dlq, worker, dispatched, consumed>>
    /\ UNCHANGED bridgeFrame

\* enrichment.py 373-376: r.delete(results_key).
DeleteReplyKey(p) ==
    /\ pipe[p].pc = "delete"
    /\ results' = [results EXCEPT ![ResultsKey(pipe[p].mission_id)] = <<>>]
    /\ pipe' = [pipe EXCEPT ![p].pc = "classify"]
    /\ UNCHANGED <<missions, mstatus, dlq, worker, dispatched, consumed, recorded>>
    /\ UNCHANGED bridgeFrame

\* enrichment.py 378-445, 491-493: a reply that is not an object or has
\* status failed is the provider's failure; otherwise the success is
\* recorded and the reply is merged into the delta.  A high-value lead goes
\* on to a second provider if one is left; any other returns here.
ClassifyReply(p) ==
    /\ pipe[p].pc = "classify"
    /\ IF pipe[p].data.status # "completed"
       THEN /\ recorded' = recorded (+)
                    SetToBag({RecordResult(pipe[p].provider, pipe[p].mission_id, FALSE, "failed")})
            /\ mstatus' = [mstatus EXCEPT ![pipe[p].mission_id] = "failed"]
            /\ pipe' = [pipe EXCEPT ![p].failed_provider = pipe[p].provider,
                                    ![p].pc = "select"]
       ELSE LET second == IF pipe[p].high_value
                          THEN GetNextProvider(pipe[p].provider, pipe[p].tried)
                          ELSE NoProvider IN
            /\ recorded' = recorded (+)
                    SetToBag({RecordResult(pipe[p].provider, pipe[p].mission_id, TRUE, "ok")})
            /\ IF second # NoProvider
               THEN /\ pipe' = [pipe EXCEPT ![p].out = {pipe[p].data.lead},
                                            ![p].second = second,
                                            ![p].pc = "push2"]
                    /\ UNCHANGED mstatus
               ELSE /\ pipe' = [pipe EXCEPT ![p].out = {pipe[p].data.lead},
                                            ![p].returned = CONTINUE,
                                            ![p].pc = "done"]
                    /\ mstatus' = [mstatus EXCEPT ![pipe[p].mission_id] = "completed"]
    /\ UNCHANGED <<missions, results, dlq, worker, dispatched, consumed>>
    /\ UNCHANGED bridgeFrame

\* enrichment.py 447-463: the cross-source mission for the second provider.
PushSecond(p) ==
    /\ pipe[p].pc = "push2"
    /\ Cardinality(dispatched) < MaxMissions
    /\ LET id == NewMissionId(UsedIds) IN
        /\ missions' = LPush(missions, [mission_id |-> id, target_provider |-> pipe[p].second, lead |-> p])
        /\ dispatched' = dispatched \cup {[mission_id |-> id, by |-> p, n |-> Cardinality(dispatched) + 1]}
        /\ pipe' = [pipe EXCEPT ![p].mission_id2 = id, ![p].pc = "wait2"]
    /\ UNCHANGED <<results, mstatus, dlq, worker, consumed, recorded>>
    /\ UNCHANGED bridgeFrame

\* enrichment.py 464-493: BRPOP returns the second reply; a reply that is
\* an object and not failed is recorded and compared with the first; the
\* second key is deleted and the station returns.
ReceiveSecond(p) ==
    /\ pipe[p].pc = "wait2"
    /\ LET key == ResultsKey(pipe[p].mission_id2)
           reply == Tail1(results[key]) IN
        /\ results[key] # <<>>
        /\ results' = [results EXCEPT ![key] = <<>>]
        /\ consumed' = consumed (+) SetToBag({[by |-> p, mission_id |-> pipe[p].mission_id2, reply |-> reply]})
        /\ recorded' = IF reply.status = "completed"
                       THEN recorded (+)
                            SetToBag({RecordResult(pipe[p].second, pipe[p].mission_id2, TRUE, "ok")})
                       ELSE recorded
        /\ pipe' = [pipe EXCEPT
                ![p].out = IF reply.status = "completed"
                           THEN pipe[p].out \cup {reply.lead} ELSE pipe[p].out,
                ![p].returned = CONTINUE,
                ![p].pc = "done"]
    /\ mstatus' = [mstatus EXCEPT ![pipe[p].mission_id] = "completed"]
    /\ UNCHANGED <<missions, dlq, worker, dispatched>>
    /\ UNCHANGED bridgeFrame

\* enrichment.py 464-468, 484-493: the second BRPOP timed out; nothing is
\* recorded or deleted and the station returns.
TimeoutSecond(p) ==
    /\ pipe[p].pc = "wait2"
    /\ results[ResultsKey(pipe[p].mission_id2)] = <<>>
    /\ mstatus' = [mstatus EXCEPT ![pipe[p].mission_id] = "completed"]
    /\ pipe' = [pipe EXCEPT ![p].returned = CONTINUE, ![p].pc = "done"]
    /\ UNCHANGED <<missions, results, dlq, worker, dispatched, consumed, recorded>>
    /\ UNCHANGED bridgeFrame

\* main.py 360-378: BRPOP of the mission queue.
WorkerPop(w) ==
    /\ worker[w].pc = "pop"
    /\ missions # <<>>
    /\ missions' = Front(missions)
    /\ worker' = [worker EXCEPT ![w].mission = Tail1(missions), ![w].pc = "exec"]
    /\ UNCHANGED <<results, mstatus, dlq, pipe, dispatched, consumed, recorded>>
    /\ UNCHANGED bridgeFrame

\* The status of the reply the worker sends (main.py 417-423, 455-465,
\* 475-486).
WorkerReplyStatus(outcome) == IF outcome = "completed" THEN "completed" ELSE "failed"

\* The status the worker leaves in mission:{id} (main.py 440-454, 466-473,
\* 503-510).
WorkerMissionStatus(outcome) == IF outcome = "exception" THEN "failed" ELSE outcome

\* A worker that sends nothing when the mission ran into the timeout.
WorkerRepliesButTimeout(mission, outcome) ==
    IF outcome = "timeout" THEN <<>>
    ELSE <<[for |-> mission.mission_id, lead |-> mission.lead,
            status |-> WorkerReplyStatus(outcome)]>>

\* main.py 417-423, 455-465, 475-486: the replies LPUSHed to the mission's
\* results key, one on each way out of the execution.
WorkerReplies(mission, outcome) ==
    <<[for |-> mission.mission_id, lead |-> mission.lead,
       status |-> WorkerReplyStatus(outcome)]>>

\* main.py 413-516: the mission completes, fails, runs into the 90 s
\* timeout or raises; each way one reply is LPUSHed to the mission's
\* results key and mission:{id} is updated; a mission that raised goes to
\* the DLQ.
WorkerExecute(w) ==
    /\ worker[w].pc = "exec"
    /\ \E outcome \in {"completed", "failed", "timeout", "exception"} :
        /\ results' = [results EXCEPT ![WorkerResultsKey(worker[w].mission.mission_id)] =
                WorkerReplies(worker[w].mission, outcome) \o @]
        /\ mstatus' = [mstatus EXCEPT ![worker[w].mission.mission_id] =
                WorkerMissionStatus(outcome)]
        /\ dlq' = IF outcome = "exception" THEN LPush(dlq, worker[w].mission) ELSE dlq
    /\ worker' = [worker EXCEPT ![w].pc = "pop"]
    /\ UNCHANGED <<missions, pipe, dispatched, consumed, recorded>>
    /\ UNCHANGED bridgeFrame

BridgeNext ==
    \/ \E p \in Pipelines :
        \/ Dispatch(p)
        \/ ReceiveReply(p)
        \/ TimeoutReply(p)
        \/ DeleteReplyKey(p)
        \/ ClassifyReply(p)
        \/ PushSecond(p)
        \/ ReceiveSecond(p)
        \/ TimeoutSecond(p)
    \/ \E w \in Workers :
        \/ WorkerPop(w)
        \/ WorkerExecute(w)

BridgeSpec == BridgeInit /\ [][BridgeNext]_vars

(***************************************************************************)
(* Claims about the bridge.                                                *)
(***************************************************************************)
Issued(mission_id) == {d \in dispatched : d.mission_id = mission_id}

\* C9: with several pipelines dispatching to one worker fleet, no mission
\* id is given to two missions, every reply a pipeline consumes was
\* produced for a mission that pipeline dispatched, and a pipeline's delta
\* holds nothing found for another pipeline's lead.
C9_NoCrossTalk ==
    /\ \A d1, d2 \in dispatched : d1.mission_id = d2.mission_id => d1 = d2
    /\ \A c \in BagToSet(consumed) :
        /\ c.reply.for = c.mission_id
        /\ c.reply.lead = c.by
        /\ \E d \in Issued(c.reply.for) : d.by = c.by
    /\ \A p \in Pipelines : pipe[p].out \subseteq {p}

\* Two pipelines, while the other was running, each merged the reply to
\* its own mission.
C9_Witness ==
    /\ \A p \in Pipelines :
        /\ pipe[p].out = {p}
        /\ \E c \in BagToSet(consumed) : c.by = p /\ c.reply.status = "completed"
    /\ Cardinality(dispatched) = 2

TimedOut == {r.mission_id : r \in {x \in BagToSet(recorded) : x.why = "timeout"}}

RecordsOf(mission_id) ==
    LET rs == {r \in BagToSet(recorded) : r.mission_id = mission_id} IN
    BagCardinality([r \in rs |-> CopiesIn(r, recorded)])

\* Nothing is in flight: every pipeline has returned or has not begun, the
\* mission queue is empty and the workers are idle.
Quiescent ==
    /\ \A p \in Pipelines :
        \/ pipe[p].pc = "done"
        \/ pipe[p].pc = "select" /\ pipe[p].tried = {}
    /\ missions = <<>>
    /\ \A w \in Workers : worker[w].pc = "pop"

\* C10: a reply is consumed at most once; for a mission whose timeout the
\* station recorded, no reply is ever consumed, the timeout stays the one
\* record of the mission, and once nothing is in flight the mission's
\* results key is not in the store.
C10_LateReplyDiscarded ==
    /\ \A c \in BagToSet(consumed) : CopiesIn(c, consumed) = 1
    /\ \A c1, c2 \in BagToSet(consumed) : c1.mission_id = c2.mission_id => c1 = c2
    /\ \A m \in TimedOut :
        /\ \A c \in BagToSet(consumed) : c.mission_id # m
        /\ RecordsOf(m) = 1
        /\ Quiescent => results[ResultsKey(m)] = <<>>

(***************************************************************************)
(* The dispatch of a primary mission command by command: the LPUSH of      *)
(* enrichment.py 305 and the HSET of mission:{id} at 307-313 are two       *)
(* commands, and the worker runs between them.                             *)
(***************************************************************************)
DispatchInit ==
    /\ EngineIdle
    /\ BridgeStart("select")
    /\ StationOff
    /\ ShieldOff
    /\ ServiceOff

\* enrichment.py 269-305: a provider is chosen and the mission is LPUSHed;
\* mission:{id} is not written yet.
PushMission(p) ==
    /\ pipe[p].pc = "select"
    /\ \E prov \in NextProviders(pipe[p]) :
        IF prov = NoProvider
        THEN /\ pipe' = [pipe EXCEPT ![p].returned = CONTINUE, ![p].pc = "done"]
             /\ UNCHANGED <<missions, dispatched>>
        ELSE /\ Cardinality(dispatched) < MaxMissions
             /\ LET id == NewMissionId(UsedIds) IN
                 /\ missions' = LPush(missions, [mission_id |-> id, target_provider |-> prov, lead |-> p])
                 /\ dispatched' = dispatched \cup {[mission_id |-> id, by |-> p, n |-> Cardinality(dispatched) + 1]}
                 /\ pipe' = [pipe EXCEPT ![p].provider = prov,
                                         ![p].tried = pipe[p].tried \cup {prov},
                                         ![p].mission_id = id,
                                         ![p].pc = "upsert"]
    /\ UNCHANGED <<results, mstatus, dlq, worker, consumed, recorded>>
    /\ UNCHANGED bridgeFrame

\* enrichment.py 307-313: _mission_status_upsert(r, mission_id,
\* status="queued"); the step ends at the BRPOP.
UpsertQueued(p) ==
    /\ pipe[p].pc = "upsert"
    /\ mstatus' = [mstatus EXCEPT ![pipe[p].mission_id] = "queued"]
    /\ pipe' = [pipe EXCEPT ![p].pc = "wait"]
    /\ UNCHANGED <<missions, results, dlq, worker, dispatched, consumed, recorded>>
    /\ UNCHANGED bridgeFrame

DispatchNext ==
    \/ \E p \in Pipelines :
        \/ PushMission(p)
        \/ UpsertQueued(p)
        \/ ReceiveReply(p)
        \/ TimeoutReply(p)
        \/ DeleteReplyKey(p)
        \/ ClassifyReply(p)
    \/ \E w \in Workers :
        \/ WorkerPop(w)
        \/ WorkerExecute(w)

DispatchSpec == DispatchInit /\ [][DispatchNext]_vars

\* C29: the worker takes a mission from chimera:missions only when
\* mission:{id} says queued, and a terminal status of a mission
\* (completed, failed, timeout) is never replaced by queued.
C29_DispatchAtomic ==
    [][/\ \A w \in Workers :
            (worker[w].pc = "pop" /\ worker'[w].pc = "exec")
                => mstatus[worker'[w].mission.mission_id] = "queued"
       /\ \A id \in Ids :
            mstatus[id] \in {"completed", "failed", "timeout"} => mstatus'[id] # "queued"]_vars

(***************************************************************************)
(* Part III.  One invocation of ChimeraStation.process, from its first     *)
(* line to its return (enrichment.py 234-495), with the pause flag and the *)
(* provider blacklist changing under it.  What the core sends back is the  *)
(* kind of reply only; the content of the delta is Part IV.                *)
(***************************************************************************)
\* Python truthiness and str.strip for the values a lead holds.
PyTruthy(v) == v \notin {Null, ""}
Strip(v) == IF v \in {Null, "", " "} THEN "" ELSE v
PyOr(a, b) == IF PyTruthy(a) THEN a ELSE b

\* enrichment.py 235: linkedin_url.
LinkedinUrl(l) == PyOr(l.linkedinUrl, "")

\* enrichment.py 239-241: the name searched for, "" when there is none.
ResolvedName(l) ==
    LET name == Strip(PyOr(PyOr(l.name, l.fullName), "")) IN
    IF name # "" THEN name
    ELSE IF Strip(PyOr(l.firstName, "")) # "" THEN Strip(PyOr(l.firstName, ""))
         ELSE Strip(PyOr(l.lastName, ""))

\* validator.py 133-137: is_high_value.
is_high_value(l) ==
    Strip(PyOr(l.company, "")) # "" /\ Strip(PyOr(l.title, "")) # ""

StationLeads ==
    { StationLead("url", "Jane Doe", Null, Null, Null, "", ""),
      StationLead("url", " ", Null, "Jane", Null, "Acme", "CEO"),
      StationLead("url", Null, Null, " ", Null, "Acme", "CEO"),
      StationLead("", "Jane Doe", Null, "Jane", "Doe", "", "") }

\* validator.py 63-69: is_provider_blacklisted; a lookup that raises
\* answers False.
is_provider_blacklisted(provider, store, lookup_fails) ==
    IF lookup_fails THEN FALSE ELSE store[provider] > 0

\* The providers the router finds blacklisted.
Blacklisted(store, lookup_fails) ==
    {P \in Providers : is_provider_blacklisted(P, store, lookup_fails)}

\* router eligibility: in the Magazine, not tried, not blacklisted.
Eligible(tried, listed) == (Providers \ tried) \ listed

\* router.select_provider: one of the eligible providers, the fixed default
\* when none is.
select_provider(tried, listed) ==
    IF Eligible(tried, listed) = {} THEN {"TruePeopleSearch"}
    ELSE Eligible(tried, listed)

\* router.get_next_provider: the first eligible provider in Magazine
\* order, none when none is left.
get_next_provider(failed, tried, listed) ==
    IF Eligible(tried, listed) = {} THEN NoProvider
    ELSE MAGAZINE[CHOOSE n \in 1..Len(MAGAZINE) :
            /\ MAGAZINE[n] \in Eligible(tried, listed)
            /\ \A k \in 1..(n - 1) : MAGAZINE[k] \notin Eligible(tried, listed)]

\* r.get(SYSTEM_STATE:PAUSED): the flag, or an exception.
FlagReads(flag) == {IF flag THEN "set" ELSE "clear", "error"}

\* enrichment.py 252: the gate keeps polling.
KeepsWaitingOneMore(waited) == waited <= PAUSE_WAIT_MAX

KeepsWaiting(waited) == waited < PAUSE_WAIT_MAX

\* enrichment.py 256: the station skips.
SkipsAfterWindow(read, waited) == read = "set" \/ waited >= PAUSE_WAIT_MAX

Skips(read, waited) == read = "set"

\* enrichment.py 279: tried.add(provider).
TriedForgets(tried, provider) == tried

TriedAdd(tried, provider) == tried \cup {provider}

Mission(provider, kind) == [provider |-> provider, kind |-> kind]

StationInit ==
    /\ EngineIdle
    /\ BridgeStart("off")
    /\ lead \in StationLeads
    /\ paused \in BOOLEAN
    /\ blacklist \in { [P \in Providers |-> IF P \in B THEN BLACKLIST_TTL ELSE 0] :
                        B \in { {}, {"TruePeopleSearch"},
                                {"FastPeopleSearch", "ZabaSearch"} } }
    /\ st = StationLocals("start", paused)
    /\ pushes = <<>>
    /\ ShieldOff
    /\ ServiceOff

\* The variables the station leaves alone.
stationFrame == <<engineVars, bridgeVars, shieldVars, serviceVars>>

\* enrichment.py 234-247: no LinkedIn URL or no name: FAIL.
CheckLead ==
    /\ st.pc = "start"
    /\ IF LinkedinUrl(lead) = "" \/ ResolvedName(lead) = ""
       THEN st' = [st EXCEPT !.returned = FAIL, !.pc = "done"]
       ELSE st' = [st EXCEPT !.pc = "gate"]
    /\ UNCHANGED <<lead, paused, blacklist, pushes>>
    /\ UNCHANGED stationFrame

\* enrichment.py 252-255, 259-260: one turn of the while loop: the flag is
\* read while the window is open; set: sleep and count; clear: leave the
\* loop; the read raised: on to the providers.
GatePoll ==
    /\ st.pc = "gate"
    /\ IF KeepsWaiting(st.waited)
       THEN \E read \in FlagReads(paused) :
            st' = CASE read = "set" ->
                         [st EXCEPT !.waited = st.waited + PAUSE_POLL_SEC,
                                    !.sleeps = st.sleeps + 1]
                    [] read = "clear" -> [st EXCEPT !.pc = "final"]
                    [] OTHER -> [st EXCEPT !.read_failed = TRUE, !.pc = "select"]
       ELSE st' = [st EXCEPT !.pc = "final"]
    /\ UNCHANGED <<lead, paused, blacklist, pushes>>
    /\ UNCHANGED stationFrame

\* enrichment.py 256-260: the flag is read once more; set: return with no
\* delta; clear, or the read raised: on to the providers.
GateFinal ==
    /\ st.pc = "final"
    /\ \E read \in FlagReads(paused) :
        IF read = "error"
        THEN st' = [st EXCEPT !.read_failed = TRUE, !.pc = "select"]
        ELSE IF Skips(read, st.waited)
             THEN st' = [st EXCEPT !.returned = CONTINUE, !.skipped = TRUE, !.pc = "done"]
             ELSE st' = [st EXCEPT !.pc = "select"]
    /\ UNCHANGED <<lead, paused, blacklist, pushes>>
    /\ UNCHANGED stationFrame

\* What the wait for a reply ends in (enrichment.py 321-441): the BRPOP
\* timed out or raised, the payload did not parse, was no object, had
\* status failed, or was a success; "numeric" is a success whose phone is
\* a number, on which record_data_point raises (validator.py 50).
FailureKinds == {"timeout", "error", "garbage", "nondict", "failed"}
ReplyKinds == FailureKinds \cup {"completed", "numeric"}

Outcome(provider, success) == [provider |-> provider, success |-> success]

\* enrichment.py 341, 351, 366, 386, 401 and 410: no record_result for a
\* failure.
record_result_on_success(log, provider, success) ==
    IF success THEN Append(log, Outcome(provider, success)) ELSE log

\* enrichment.py 341, 351, 366, 386, 401, 410, 473: record_result(provider,
\* state, success) puts one outcome into provider_health.
record_result(log, provider, success) == Append(log, Outcome(provider, success))

\* enrichment.py 342, 352, 367, 387, 402, 414: record_carrier_result(domain,
\* carrier, success), the domain being the provider's.
record_carrier_result(log, provider, success) == Append(log, Outcome(provider, success))

\* enrichment.py 334-405: the ways a wait ends that count against the
\* provider; any other reply is a success.
Succeeded(kind) == kind \notin FailureKinds

\* enrichment.py 269-313: the provider of this attempt; with none left the
\* station returns with no delta; otherwise the provider joins tried and
\* its mission is LPUSHed.  The step ends at the BRPOP.
StationDispatch ==
    /\ st.pc = "select"
    /\ LET listed == Blacklisted(blacklist, FALSE)
           choice == IF st.tried = {}
                     THEN select_provider(st.tried, listed)
                     ELSE {get_next_provider(st.failed_provider, st.tried, listed)}
       IN \E provider \in choice :
        IF provider = NoProvider
        THEN /\ st' = [st EXCEPT !.returned = CONTINUE, !.pc = "done", !.kind = "none"]
             /\ UNCHANGED pushes
        ELSE /\ st' = [st EXCEPT !.provider = provider,
                                 !.tried = TriedAdd(st.tried, provider),
                                 !.kind = "none",
                                 !.pc = "wait"]
             /\ pushes' = Append(pushes, Mission(provider, "primary"))
    /\ UNCHANGED <<lead, paused, blacklist>>
    /\ UNCHANGED stationFrame

\* enrichment.py 321-463, 491-493: the wait ends.  A failure is recorded
\* and the loop goes on.  A success is recorded, its phone and email go to
\* the poison tracker, which may blacklist the provider, and the delta is
\* built; a high-value lead with a second provider left has the second
\* mission LPUSHed and waits again; any other returns the delta.
StationReply ==
    /\ st.pc = "wait"
    /\ \E kind \in ReplyKinds, poisoned \in BOOLEAN :
        IF ~Succeeded(kind)
        THEN /\ st' = [st EXCEPT !.outcomes = st.outcomes \cup {Outcome(st.provider, FALSE)},
                                 !.results = record_result(@, st.provider, FALSE),
                                 !.carriers = record_carrier_result(@, st.provider, FALSE),
                                 !.kind = kind,
                                 !.failed_provider = st.provider,
                                 !.pc = "select"]
             /\ UNCHANGED <<blacklist, pushes>>
        ELSE IF kind = "numeric"
        THEN /\ st' = [st EXCEPT !.outcomes = st.outcomes \cup {Outcome(st.provider, TRUE)},
                                 !.results = record_result(@, st.provider, TRUE),
                                 !.carriers = record_carrier_result(@, st.provider, TRUE),
                                 !.kind = kind,
                                 !.returned = "raise",
                                 !.pc = "done"]
             /\ UNCHANGED <<blacklist, pushes>>
        ELSE LET store == IF poisoned
                          THEN [blacklist EXCEPT ![st.provider] = BLACKLIST_TTL]
                          ELSE blacklist
                 second == IF is_high_value(lead)
                           THEN get_next_provider(st.provider, st.tried,
                                                  Blacklisted(store, FALSE))
                           ELSE NoProvider IN
             /\ blacklist' = store
             /\ IF second # NoProvider
                THEN /\ st' = [st EXCEPT
                            !.outcomes = st.outcomes \cup {Outcome(st.provider, TRUE)},
                            !.results = record_result(@, st.provider, TRUE),
                            !.carriers = record_carrier_result(@, st.provider, TRUE),
                            !.kind = kind,
                            !.out = {"chimera_raw"},
                            !.second = second,
                            !.pc = "wait2"]
                     /\ pushes' = Append(pushes, Mission(second, "second"))
                ELSE /\ st' = [st EXCEPT
                            !.outcomes = st.outcomes \cup {Outcome(st.provider, TRUE)},
                            !.results = record_result(@, st.provider, TRUE),
                            !.carriers = record_carrier_result(@, st.provider, TRUE),
                            !.kind = kind,
                            !.out = {"chimera_raw"},
                            !.returned = CONTINUE,
                            !.pc = "done"]
                     /\ UNCHANGED pushes
    /\ UNCHANGED <<lead, paused>>
    /\ UNCHANGED stationFrame

\* enrichment.py 464-493: the second wait ends.  A reply that is an object
\* and not failed is recorded and compared with the first; if the two
\* differ the delta gets NEEDS_RECONCILIATION.  The station returns.
StationSecondReply ==
    /\ st.pc = "wait2"
    /\ \E kind \in ReplyKinds \ {"numeric"}, differ \in BOOLEAN :
        IF kind = "completed"
        THEN st' = [st EXCEPT
                !.outcomes = st.outcomes \cup {Outcome(st.second, TRUE)},
                !.results = record_result(@, st.second, TRUE),
                !.out = IF differ THEN st.out \cup {"NEEDS_RECONCILIATION"} ELSE st.out,
                !.returned = CONTINUE,
                !.pc = "done"]
        ELSE st' = [st EXCEPT !.returned = CONTINUE, !.pc = "done"]
    /\ UNCHANGED <<lead, paused, blacklist, pushes>>
    /\ UNCHANGED stationFrame

\* capsolver.py 59, vision_service.py 68: r.set(PAUSED_KEY, reason).
SetPaused ==
    /\ st.pc # "done"
    /\ ~paused
    /\ paused' = TRUE
    /\ UNCHANGED <<lead, blacklist, st, pushes>>
    /\ UNCHANGED stationFrame

\* The operator clears the flag.
ClearPaused ==
    /\ st.pc # "done"
    /\ paused
    /\ paused' = FALSE
    /\ st' = [st EXCEPT !.was_clear = TRUE]
    /\ UNCHANGED <<lead, blacklist, pushes>>
    /\ UNCHANGED stationFrame

\* validator.py 77: the key was set with ex=BLACKLIST_TTL; it expires.
BlacklistExpires ==
    /\ st.pc # "done"
    /\ \E P \in Providers :
        /\ blacklist[P] > 0
        /\ blacklist' = [blacklist EXCEPT ![P] = 0]
    /\ UNCHANGED <<lead, paused, st, pushes>>
    /\ UNCHANGED stationFrame

StationNext ==
    \/ CheckLead
    \/ GatePoll
    \/ GateFinal
    \/ StationDispatch
    \/ StationReply
    \/ StationSecondReply
    \/ SetPaused
    \/ ClearPaused
    \/ BlacklistExpires

StationSpec == StationInit /\ [][StationNext]_vars

(***************************************************************************)
(* Claims about the station.                                               *)
(***************************************************************************)
Primary == {n \in 1..Len(pushes) : pushes[n].kind = "primary"}

PastGate == st.pc \in {"select", "wait", "wait2", "done"}

Searchable == LinkedinUrl(lead) # "" /\ ResolvedName(lead) # ""

\* C11: no mission, first, later or second, is LPUSHed in a step taken
\* while SYSTEM_STATE:PAUSED is set.
C11_NoPushWhilePaused ==
    [][Len(pushes') > Len(pushes) => ~paused]_vars

C14_FailOnlyWithoutName ==
    /\ st.returned = FAIL => ResolvedName(lead) = ""
    /\ ResolvedName(lead) = "" => pushes = <<>>
    /\ (st.pc = "done" /\ ResolvedName(lead) # "" /\ st.returned # "raise")
        => st.returned = CONTINUE

\* C15: the primary missions of one invocation go to pairwise different
\* providers, each in tried when its mission is out, so there are at most 6
\* of them; an invocation that ends with nothing but failures recorded has
\* returned CONTINUE with an empty delta.
C15_EachProviderOnce ==
    /\ \A m, n \in Primary : m # n => pushes[m].provider # pushes[n].provider
    /\ \A n \in Primary : pushes[n].provider \in st.tried
    /\ Cardinality(Primary) <= 6
    /\ (st.pc = "done" /\ pushes # <<>> /\ \A o \in st.outcomes : ~o.success)
        => st.returned = CONTINUE /\ st.out = {}

\* All six providers of the Magazine were tried, each failed, and the
\* station returned with nothing.
C15_Witness ==
    /\ st.pc = "done"
    /\ Cardinality(Primary) = 6
    /\ \A o \in st.outcomes : ~o.success
    /\ st.returned = CONTINUE /\ st.out = {}

\* The calls of record_result for a provider.
ResultsFor(provider) == {n \in 1..Len(st.results) : st.results[n].provider = provider}

\* C26: every primary mission whose wait has ended has exactly one
\* record_result call for its provider, and a mission still waited for has
\* none; the call says success=false when the wait ended in an error, a
\* timeout, a parse error, a reply that is no object or status failed, and
\* success=true otherwise; the mission of a success is the last primary
\* mission; and the invocation returns once.
C26_OneRecordPerMission ==
    /\ [](/\ \A n \in Primary :
             /\ Cardinality(ResultsFor(pushes[n].provider)) =
                    IF st.pc = "wait" /\ n = Len(pushes) THEN 0 ELSE 1
             /\ (\E k \in ResultsFor(pushes[n].provider) : st.results[k].success)
                    => \A m \in Primary : m <= n
          /\ st.returned # "none" <=> st.pc = "done")
    /\ [][(st.pc = "wait" /\ st'.pc # "wait")
            => st'.results = Append(st.results,
                    Outcome(st.provider,
                            st'.kind \notin {"error", "timeout", "garbage", "nondict", "failed"}))]_vars

\* A failed attempt was followed by a successful one: one failure record,
\* one success record, and the station has returned its delta.
C26_Witness ==
    /\ st.pc = "done"
    /\ st.returned = CONTINUE
    /\ Len(pushes) = 2
    /\ Cardinality(Primary) = 2
    /\ Len(st.results) = 2
    /\ ~st.results[1].success
    /\ st.results[2].success
    /\ st.results[1].provider = pushes[1].provider
    /\ st.results[2].provider = pushes[2].provider
    /\ st.kind = "completed"

\* C27: once the invocation that pushed a second mission has returned, a
\* router outcome and a carrier outcome are recorded for the second
\* provider, however the second wait ended.
C27_SecondAlwaysRecorded ==
    (st.pc = "done" /\ st.second # NoProvider)
        => /\ \E n \in 1..Len(st.results) : st.results[n].provider = st.second
           /\ \E n \in 1..Len(st.carriers) : st.carriers[n].provider = st.second

(***************************************************************************)
(* Part IV.  The validator (validator.py): poison tracking, the blacklist  *)
(* and the consensus checks.  Strings are sequences of characters so that  *)
(* strip, lower and the digit filter do what the Python does.              *)
(***************************************************************************)
Digits == {"5", "1", "2"}
IsDigit(c) == c \in Digits
IsSpace(c) == c = " "
Lower(c) == CASE c = "A" -> "a" [] c = "B" -> "b" [] OTHER -> c

LowerSeq(s) == [k \in 1..Len(s) |-> Lower(s[k])]

RECURSIVE StripLeft(_)
StripLeft(s) == IF s # <<>> /\ IsSpace(Head(s)) THEN StripLeft(Tail(s)) ELSE s

RECURSIVE StripRight(_)
StripRight(s) ==
    IF s # <<>> /\ IsSpace(s[Len(s)]) THEN StripRight(SubSeq(s, 1, Len(s) - 1)) ELSE s

\* str.strip.
StripSeq(s) == StripRight(StripLeft(s))

\* "".join(c for c in s if c.isdigit()).
DigitsOf(s) == SelectSeq(s, IsDigit)

PyFalsy(v) == v.t = "none" \/ (v.t = "str" /\ v.s = <<>>) \/ (v.t = "num" /\ v.n = 0)

\* What a function hands back when it raises.
Raised == [t |-> "raise", s |-> <<>>, n |-> 0]

\* validator.py 49-51: (v or "").strip(), lowered; a number that is not 0
\* has no strip and the call raises AttributeError.
norm_val(v) ==
    IF PyFalsy(v) THEN PyStr(<<>>)
    ELSE IF v.t = "str" THEN PyStr(LowerSeq(StripSeq(v.s)))
         ELSE Raised

\* validator.py 54-55: the first 24 hex digits of sha256 of the normal
\* form; two normal forms have one hash only if they are equal.
hash_val(v) == norm_val(v).s


OverThreshold(n) == n > 3

\* r.scard(key) for key = poison:p:{provider}:{data_type}:{h}.
SCard(store, provider, data_type, h) ==
    Cardinality({m \in store : m.provider = provider /\ m.data_type = data_type /\ m.h = h})

\* The value a data point stands for: a string up to case and outer
\* blanks, a number as it is.
ValueId(v) == IF v.t = "str" THEN PyStr(LowerSeq(StripSeq(v.s))) ELSE v

PoisonProviders == {"ZabaSearch", "AnyWho"}
LeadIds == {"lead1", "lead2", "lead3", "lead4"}

\* The data points providers are seen to return.
PointInputs ==
    { <<"ZabaSearch", "phone", PyStr(<<"5", "5", "1">>)>>,
      <<"ZabaSearch", "phone", PyStr(<<" ", "5", "5", "1">>)>>,
      <<"ZabaSearch", "phone", PyNum(551)>>,
      <<"ZabaSearch", "phone", PyStr(<<>>)>>,
      <<"ZabaSearch", "email", PyStr(<<"A", "b">>)>>,
      <<"ZabaSearch", "age", PyStr(<<"5", "1">>)>>,
      <<"AnyWho", "phone", PyStr(<<"5", "5", "1">>)>> }

PoisonInit ==
    /\ EngineIdle
    /\ BridgeStart("off")
    /\ StationOff
    /\ ShieldOff
    /\ ServiceOff

\* The variables record_data_point leaves alone.
shieldFrame == <<engineVars, bridgeVars, lead, paused, st, pushes, serviceVars>>

\* validator.py 97-125 with blacklist_provider (72-89): the value is
\* normalised (which may raise); an empty value or a type other than phone
\* and email returns False; otherwise lead_id joins the set of the key and
\* with more than 3 members the provider is blacklisted for BLACKLIST_TTL
\* and the call returns True.
RecordDataPoint ==
    /\ call.count < MaxPoints
    /\ \E input \in PointInputs, lead_id \in LeadIds :
       LET provider == input[1]
           data_type == input[2]
           value == input[3]
           v == norm_val(value)
           added == poison \cup {[provider |-> provider, data_type |-> data_type,
                                  h |-> hash_val(value), lead_id |-> lead_id]}
           done(ret) == DataPointCall(call.count + 1, provider, data_type, value, lead_id, ret)
       IN
        /\ points' = points \cup {[provider |-> provider, data_type |-> data_type,
                                   value_id |-> ValueId(value), lead_id |-> lead_id]}
        /\ IF v = Raised
           THEN /\ call' = done("raise")
                /\ UNCHANGED <<poison, blacklist>>
           ELSE IF v.s = <<>> \/ data_type \notin {"phone", "email"}
           THEN /\ call' = done("False")
                /\ UNCHANGED <<poison, blacklist>>
           ELSE /\ poison' = added
                /\ IF OverThreshold(SCard(added, provider, data_type, hash_val(value)))
                   THEN /\ blacklist' = [blacklist EXCEPT ![provider] = BLACKLIST_TTL]
                        /\ call' = done("True")
                   ELSE /\ call' = done("False")
                        /\ UNCHANGED blacklist
    /\ UNCHANGED <<routed, consensus, cmp>>
    /\ UNCHANGED shieldFrame

\* validator.py 118: the set was given POISON_TTL at its last write; it
\* expires, and the window of its value starts anew.
PoisonExpires ==
    /\ \E m \in poison :
        /\ poison' = {x \in poison :
                ~(x.provider = m.provider /\ x.data_type = m.data_type /\ x.h = m.h)}
        /\ points' = {x \in points :
                ~(x.provider = m.provider /\ x.data_type = m.data_type
                  /\ x.value_id = PyStr(m.h))}
    /\ UNCHANGED <<blacklist, call, routed, consensus, cmp>>
    /\ UNCHANGED shieldFrame

PoisonNext ==
    \/ RecordDataPoint
    \/ PoisonExpires
    \/ BlacklistExpires

PoisonSpec == PoisonInit /\ [][PoisonNext]_vars

\* The distinct leads, this call's included, for which the call's data
\* point was recorded in the window.
LeadsOfCall(c, log) ==
    {q.lead_id : q \in {x \in log : /\ x.provider = c.provider
                                    /\ x.data_type = c.data_type
                                    /\ x.value_id = ValueId(c.value)}}

\* C16: a phone or email recorded for at most 3 distinct leads in the
\* window leaves the provider's blacklist entry as it was and does not
\* return true; recorded for a 4th distinct lead it sets
\* blacklist:provider:{provider} with a TTL of 4 h and returns true.
C16_FourthLeadBlacklists ==
    [][(/\ call'.count # call.count
        /\ call'.data_type \in {"phone", "email"}
        /\ ValueId(call'.value) \notin {PyNone, PyStr(<<>>)})
        => LET n == Cardinality(LeadsOfCall(call', points')) IN
           /\ n <= 3 => /\ blacklist'[call'.provider] = blacklist[call'.provider]
                        /\ call'.ret # "True"
           /\ n >= 4 => /\ blacklist'[call'.provider] = 14400
                        /\ call'.ret = "True"]_vars

(***************************************************************************)
(* The router under a blacklist (spec 4.4; validator.py 63-69 for the      *)
(* lookup; blueprint_loader.py 72-84 for the loader's use of it).          *)
(***************************************************************************)
RouterInit ==
    /\ EngineIdle
    /\ BridgeStart("off")
    /\ lead = NoStationLead
    /\ paused = FALSE
    /\ blacklist \in [Providers -> {0, BLACKLIST_TTL}]
    /\ st = StationLocals("off", FALSE)
    /\ pushes = <<>>
    /\ ShieldOff
    /\ ServiceOff

\* The sets of tried providers the router is called with.
TriedSets ==
    { {}, {"TruePeopleSearch"}, {"FastPeopleSearch", "TruePeopleSearch"},
      Providers \ {"AnyWho"}, Providers }

\* The variables a router call leaves alone.
routerFrame == <<engineVars, bridgeVars, stationVars, poison, points, call, consensus, cmp, serviceVars>>

\* select_provider(lead, r, tried=tried): the blacklist is looked up, and
\* a lookup that raises counts as "not blacklisted".
CallSelectProvider ==
    /\ \E tried \in TriedSets, lookup_fails \in BOOLEAN :
        \E provider \in select_provider(tried, Blacklisted(blacklist, lookup_fails)) :
            routed' = RouterCall("select_provider", tried, provider)
    /\ UNCHANGED routerFrame

\* get_next_provider(failed, tried=tried, r=r).
CallGetNextProvider ==
    /\ \E tried \in TriedSets \ {{}}, lookup_fails \in BOOLEAN :
        LET failed == CHOOSE f \in tried : TRUE IN
            routed' = RouterCall("get_next_provider", tried,
                        get_next_provider(failed, tried, Blacklisted(blacklist, lookup_fails)))
    /\ UNCHANGED routerFrame

\* blueprint_loader.py 72-84: select_provider(ctx.data, r, tried=set());
\* if it raised or gave nothing the provider is "TruePeopleSearch".
BlueprintLoaderProvider ==
    /\ \E raised \in BOOLEAN, lookup_fails \in BOOLEAN :
        \E provider \in select_provider({}, Blacklisted(blacklist, lookup_fails)) :
            routed' = RouterCall("blueprint_loader", {},
                        IF raised THEN "TruePeopleSearch" ELSE provider)
    /\ UNCHANGED routerFrame

RouterNext ==
    \/ CallSelectProvider
    \/ CallGetNextProvider
    \/ BlueprintLoaderProvider
    \/ BlacklistExpires

RouterSpec == RouterInit /\ [][RouterNext]_vars

\* C17: a provider whose blacklist entry exists is returned by no call of
\* select_provider or get_next_provider, whatever was tried and whether or
\* not the lookup of the entry succeeds.
C17_BlacklistedNeverReturned ==
    [][routed' # routed
        => routed'.ret = NoProvider \/ blacklist[routed'.ret] = 0]_vars


(***************************************************************************)
(* The consensus checks: the delta of a successful reply                   *)
(* (enrichment.py 422-493) with apply_consensus_protocol and               *)
(* check_cross_source.  The poison bookkeeping of lines 417-420 is         *)
(* PoisonSpec's; here phones and emails are strings or missing.            *)
(***************************************************************************)
\* validator.py 26, in hundredths.
CONFIDENCE_OLMOCR_THRESHOLD == 95

\* dict.get(k): None for a key the reply does not hold.
Get(v) == IF v = NoKey THEN PyNone ELSE v

\* validator.py 140-151 without the guard that the digit strings are not
\* empty.
norm_comp_digits_only(a, b) ==
    LET sa == norm_val(a)
        sb == norm_val(b)
    IN  IF sa = Raised \/ sb = Raised THEN "raise"
        ELSE IF sa.s = sb.s THEN "True"
        ELSE IF DigitsOf(sa.s) = DigitsOf(sb.s) THEN "True"
        ELSE "False"

\* validator.py 140-151: equal normal forms, or equal digit strings that
\* are not empty.  It raises when _norm_val does.
norm_comp(a, b) ==
    LET sa == norm_val(a)
        sb == norm_val(b)
    IN  IF sa = Raised \/ sb = Raised THEN "raise"
        ELSE IF sa.s = sb.s THEN "True"
        ELSE IF /\ DigitsOf(sa.s) # <<>>
                /\ DigitsOf(sb.s) # <<>>
                /\ DigitsOf(sa.s) = DigitsOf(sb.s) THEN "True"
        ELSE "False"

\* validator.py 157: r.get(k) or r.get("chimera_" + k); a reply holds no
\* chimera_ key, so a falsy value reads as None.
FieldOf(r, k) == IF PyFalsy(Get(r[k])) THEN PyNone ELSE r[k]

\* validator.py 156-163, key by key in the order of the loop.
RECURSIVE DifferFrom(_, _, _)
DifferFrom(keys, r1, r2) ==
    IF keys = <<>> THEN "False"
    ELSE LET v1 == FieldOf(r1, Head(keys))
             v2 == FieldOf(r2, Head(keys))
         IN  IF v1 = PyNone /\ v2 = PyNone THEN DifferFrom(Tail(keys), r1, r2)
             ELSE IF norm_comp(v1, v2) = "raise" THEN "raise"
             ELSE IF norm_comp(v1, v2) = "False" THEN "True"
             ELSE DifferFrom(Tail(keys), r1, r2)

results_differ_significantly(r1, r2) == DifferFrom(<<"phone", "email", "age">>, r1, r2)

\* validator.py 166-173.
check_cross_source(r1, r2) ==
    CASE results_differ_significantly(r1, r2) = "raise" -> "raise"
      [] results_differ_significantly(r1, r2) = "True" -> "NEEDS_RECONCILIATION"
      [] OTHER -> "None"

\* validator.py 181-183: float(confidence or 1.0) < 0.95.
should_trigger_olmocr_verification(confidence) ==
    (IF PyFalsy(confidence) THEN 100 ELSE confidence.n) < CONFIDENCE_OLMOCR_THRESHOLD

\* validator.py 186-197: the flags to add to the delta.
apply_consensus_protocol(chimera_raw) ==
    LET c == IF chimera_raw.vision_confidence # NoKey THEN chimera_raw.vision_confidence
             ELSE IF chimera_raw.confidence # NoKey THEN chimera_raw.confidence
             ELSE PyNum(100)
    IN  IF should_trigger_olmocr_verification(c)
        THEN {"NEEDS_OLMOCR_VERIFICATION"} ELSE {}

\* The values the replies hold.
ReplyPhones == {NoKey, PyStr(<<"5", "5", "1">>), PyStr(<<"5", "-", "5", "1">>),
                PyStr(<<"5", "5", "2">>)}
ReplyEmails == {NoKey, PyStr(<<"a", "1", "@">>), PyStr(<<"b", "1", "@">>)}
ReplyAges == {NoKey, PyNum(51), PyNum(52), PyStr(<<"5", "1">>), PyStr(<<"5", "2">>)}
Confidences == {NoKey, PyNone, PyNum(0), PyNum(94), PyNum(95), PyNum(100)}

FirstReplies ==
    {Reply("completed", p, e, a, vc, c) :
        p \in ReplyPhones, e \in ReplyEmails, a \in ReplyAges,
        vc \in Confidences, c \in {NoKey, PyNum(50)}}

SecondReplies ==
    {Reply(s, p, e, a, NoKey, NoKey) :
        s \in {"completed", "failed"},
        p \in ReplyPhones, e \in ReplyEmails, a \in ReplyAges}

ConsensusInit ==
    /\ EngineIdle
    /\ BridgeStart("off")
    /\ StationOff
    /\ poison = {}
    /\ points = {}
    /\ call = NoCall
    /\ routed = NoRouted
    /\ consensus \in {Consensus("reply", hv, d, NoData, {}) :
                        hv \in BOOLEAN, d \in FirstReplies}
    /\ cmp = NoCmp
    /\ ServiceOff

consensusFrame == <<engineVars, bridgeVars, stationVars, poison, points, call, routed, cmp, serviceVars>>

\* enrichment.py 422-433: the delta of the first reply.
SuccessDelta ==
    /\ consensus.pc = "reply"
    /\ LET first == consensus.data
           copied == {k \in {"age", "phone", "email"} : Get(first[k]) # PyNone}
           chimera_(k) == CASE k = "age" -> "chimera_age"
                            [] k = "phone" -> "chimera_phone"
                            [] k = "email" -> "chimera_email"
       IN  consensus' =
             [consensus EXCEPT
                !.out = {chimera_(k) : k \in copied}
                        \cup (copied \ {"age"})
                        \cup {"chimera_raw"}
                        \cup apply_consensus_protocol(first),
                !.pc = IF consensus.high_value THEN "second" ELSE "done"]
    /\ UNCHANGED consensusFrame

\* enrichment.py 444-489: the second reply of a high-value lead; an
\* exception of check_cross_source is caught at line 482.
CrossSource ==
    /\ consensus.pc = "second"
    /\ \E data2 \in SecondReplies :
         consensus' =
           [consensus EXCEPT
              !.data2 = data2,
              !.differ = IF data2.status # "failed"
                         THEN results_differ_significantly(consensus.data, data2)
                         ELSE "none",
              !.out = IF /\ data2.status # "failed"
                         /\ check_cross_source(consensus.data, data2) = "NEEDS_RECONCILIATION"
                      THEN @ \cup {"NEEDS_RECONCILIATION"} ELSE @,
              !.pc = "done"]
    /\ UNCHANGED consensusFrame

\* enrichment.py 445-446, 469: no second provider, or no reply in time.
NoSecondReply ==
    /\ consensus.pc = "second"
    /\ consensus' = [consensus EXCEPT !.pc = "done"]
    /\ UNCHANGED consensusFrame

ConsensusNext == SuccessDelta \/ CrossSource \/ NoSecondReply

ConsensusSpec == ConsensusInit /\ [][ConsensusNext]_vars


\* The two replies differ on a key: the phones by their digits, the emails
\* and the ages by their value.
DifferOn(r1, r2) ==
    \/ DigitsOf(Get(r1.phone).s) # DigitsOf(Get(r2.phone).s)
    \/ Get(r1.email) # Get(r2.email)
    \/ Get(r1.age) # Get(r2.age)

\* C18: once the station has a non-failed second reply for a high-value
\* lead, NEEDS_RECONCILIATION is in the delta exactly when the two replies
\* differ on phone (by digits), email or age, whatever the types of the
\* values.
C18_ReconciliationWhenDiffer ==
    (consensus.pc = "done" /\ consensus.high_value /\ consensus.data2.status = "completed")
        => ("NEEDS_RECONCILIATION" \in consensus.out
                <=> DifferOn(consensus.data, consensus.data2))

\* C20: once the delta of a successful reply is built,
\* NEEDS_OLMOCR_VERIFICATION is in it exactly when the reply holds a
\* vision_confidence below 0.95, 0 included; a reply without
\* vision_confidence sets no flag.
C20_OlmocrIffLowConfidence ==
    consensus.pc \in {"second", "done"}
        => ("NEEDS_OLMOCR_VERIFICATION" \in consensus.out
                <=> /\ consensus.data.vision_confidence.t = "num"
                    /\ consensus.data.vision_confidence.n < CONFIDENCE_OLMOCR_THRESHOLD)


(***************************************************************************)
(* _norm_comp on its own (validator.py 140-151), applied to every pair of  *)
(* strings of at most MaxLen characters.                                   *)
(***************************************************************************)
Chars == {"5", "1", "-", "a", "A", " "}

Strings == UNION {[1..n -> Chars] : n \in 0..MaxLen}

CompareInit ==
    /\ EngineIdle
    /\ BridgeStart("off")
    /\ StationOff
    /\ poison = {}
    /\ points = {}
    /\ call = NoCall
    /\ routed = NoRouted
    /\ consensus = NoConsensus
    /\ cmp \in {NormComp("call", a, b, "none", <<>>, <<>>) : a \in Strings, b \in Strings}
    /\ ServiceOff

\* validator.py 140-151: the call, with the digit string of line 147 and
\* the digit string of that.
Compare ==
    /\ cmp.pc = "call"
    /\ cmp' = [cmp EXCEPT !.pc = "done",
                          !.ret = norm_comp(PyStr(cmp.a), PyStr(cmp.b)),
                          !.da = DigitsOf(norm_val(PyStr(cmp.a)).s),
                          !.dda = DigitsOf(DigitsOf(norm_val(PyStr(cmp.a)).s))]
    /\ UNCHANGED <<engineVars, bridgeVars, stationVars, poison, points, call, routed, consensus, serviceVars>>

CompareNext == Compare

CompareSpec == CompareInit /\ [][CompareNext]_vars

\* The characters of s that are among 0-9, whatever the code keeps.
OnlyDigits(s) == SelectSeq(s, LAMBDA c : c \in {"0", "1", "2", "3", "4", "5", "6", "7", "8", "9"})

\* The trimmed, lower-cased text of s, written out character by character.
Trimmed(s) ==
    LET keep == {k \in 1..Len(s) : \E lo \in 1..k, hi \in k..Len(s) : s[lo] # " " /\ s[hi] # " "}
        low(c) == IF c = "A" THEN "a" ELSE c
    IN  [k \in 1..Cardinality(keep) |-> low(s[k + (CHOOSE m \in keep : \A q \in keep : m <= q) - 1])]

BothHoldUnequal(r1, r2, k) ==
    /\ Get(r1[k]) # PyNone
    /\ Get(r2[k]) # PyNone
    /\ IF k = "phone" THEN OnlyDigits(r1[k].s) # OnlyDigits(r2[k].s)
       ELSE r1[k] # r2[k]

\* C28: results_differ_significantly(R1, R2) is true exactly when, for some
\* key among phone, email and age, both results hold a non-null value and
\* the values are unequal after normalization; a key held by one result
\* only does not make them differ, and emails that differ are not equal
\* for sharing their digits.
C28_DifferIffBothHoldUnequal ==
    consensus.differ # "none"
        => (consensus.differ = "True"
              <=> \E k \in {"phone", "email", "age"} :
                     BothHoldUnequal(consensus.data, consensus.data2, k))


(***************************************************************************)
(* Part V.  The queue worker (redis_queue_worker.py worker_loop) and its   *)
(* restart by the thread monitor (start_redis_worker.py 131-143).  The     *)
(* pipeline is what process_lead returns: saved or not.                    *)
(***************************************************************************)
MaxRestarts == 1

\* Every order of every set of payloads, each at most once.
RECURSIVE Arrangements(_)
Arrangements(S) ==
    {<<>>} \cup UNION {{<<x>> \o rest : rest \in Arrangements(S \ {x})} : x \in S}

QueueInit ==
    /\ EngineIdle
    /\ BridgeStart("off")
    /\ StationOff
    /\ ShieldOff
    /\ leads_to_enrich \in Arrangements(Payloads)
    /\ failed_leads = <<>>
    /\ qworker = QWorker("pop", NoPayload, [k \in LeadKeys |-> 0], 0)
    /\ qlog = NoQLog
    /\ LoaderOff
    /\ RunsOff
    /\ AuxOff

queueFrame == <<engineVars, bridgeVars, stationVars, shieldVars, apiVars, auxVars>>

\* redis_queue_worker.py 211-214: BRPOP takes the payload at the tail.
QPop ==
    /\ qworker.pc = "pop"
    /\ leads_to_enrich # <<>>
    /\ leads_to_enrich' = Front(leads_to_enrich)
    /\ qworker' = [qworker EXCEPT !.pc = "handle", !.lead_json = Tail1(leads_to_enrich)]
    /\ qlog' = [qlog EXCEPT !.pops[Tail1(leads_to_enrich)] = @ + 1]
    /\ UNCHANGED failed_leads
    /\ UNCHANGED queueFrame

\* redis_queue_worker.py 244: the payload is pushed back after every
\* failure.
RequeuedAlways(list, lead_json, count) == LPush(list, lead_json)

\* redis_queue_worker.py 233-244: the payload is pushed back onto
\* leads_to_enrich while its count is below MAX_RETRIES.
Requeued(list, lead_json, count) ==
    IF count >= MAX_RETRIES THEN list ELSE LPush(list, lead_json)

\* redis_queue_worker.py 233-237: at MAX_RETRIES the payload goes to
\* failed_leads.
DeadLettered(list, lead_json, count) ==
    IF count >= MAX_RETRIES THEN LPush(list, lead_json) ELSE list

\* redis_queue_worker.py 216-254: the payload is parsed; one that does not
\* parse, or is no object (lead_data.get raises), goes to failed_leads.  A
\* lead is processed; on success its key leaves retry_count; on failure the
\* key's count goes up and the payload is dead-lettered at MAX_RETRIES,
\* the key leaving retry_count, or pushed back after the backoff sleep.
QOutcome(success) ==
    LET lead_json == qworker.lead_json
        lead_id == LeadKey(lead_json)
        count == qworker.retry_count[lead_id] + 1 IN
    IF success
    THEN /\ qworker' = [qworker EXCEPT !.pc = "pop", !.lead_json = NoPayload,
                                       !.retry_count[lead_id] = 0]
         /\ qlog' = [qlog EXCEPT !.attempts[lead_json] = @ + 1,
                                 !.succeeded[lead_json] = @ + 1]
         /\ UNCHANGED <<leads_to_enrich, failed_leads>>
    ELSE /\ leads_to_enrich' = Requeued(leads_to_enrich, lead_json, count)
         /\ failed_leads' = DeadLettered(failed_leads, lead_json, count)
         /\ qworker' = [qworker EXCEPT
                !.pc = "pop", !.lead_json = NoPayload,
                !.retry_count[lead_id] = IF count >= MAX_RETRIES THEN 0 ELSE count]
         /\ qlog' = [qlog EXCEPT
                !.attempts[lead_json] = @ + 1,
                !.requeued[lead_json] =
                    @ + Len(leads_to_enrich') - Len(leads_to_enrich),
                !.dead[lead_json] = @ + Len(failed_leads') - Len(failed_leads)]

QHandle ==
    /\ qworker.pc = "handle"
    /\ IF qworker.lead_json.json # "object"
       THEN /\ failed_leads' = LPush(failed_leads, qworker.lead_json)
            /\ qlog' = [qlog EXCEPT !.dead[qworker.lead_json] = @ + 1]
            /\ qworker' = [qworker EXCEPT !.pc = "pop", !.lead_json = NoPayload]
            /\ UNCHANGED leads_to_enrich
       ELSE \E success \in BOOLEAN : QOutcome(success)
    /\ UNCHANGED queueFrame

\* start_redis_worker.py 131-143, redis_queue_worker.py 206: the loop is
\* started again, blocked in BRPOP, with an empty retry_count.
QRestart ==
    /\ qworker.pc = "pop"
    /\ qworker.restarts < MaxRestarts
    /\ qworker' = [qworker EXCEPT !.retry_count = [k \in LeadKeys |-> 0],
                                  !.restarts = @ + 1]
    /\ UNCHANGED <<leads_to_enrich, failed_leads, qlog>>
    /\ UNCHANGED queueFrame

QueueNext == QPop \/ QHandle \/ QRestart

QueueSpec == QueueInit /\ [][QueueNext]_vars

\* The valid leads none of whose attempts ended in saved=true.
NeverSaved == {l \in Payloads : l.json = "object" /\ qlog.succeeded[l] = 0}

InQueue(l, list) == \E n \in 1..Len(list) : list[n] = l

\* C21: a lead whose every attempt failed is processed at most
\* MAX_RETRIES times, is back on leads_to_enrich after its 1st and 2nd
\* failure and no more after the 3rd, and is on failed_leads once, after
\* exactly MAX_RETRIES attempts; whatever the other leads in the queue and
\* whenever the loop restarts.
C21_ThreeAttemptsThenDlq ==
    \A l \in NeverSaved :
        /\ qlog.attempts[l] <= MAX_RETRIES
        /\ qlog.dead[l] = (IF qlog.attempts[l] = MAX_RETRIES THEN 1 ELSE 0)
        /\ qlog.requeued[l] =
                (IF qlog.attempts[l] < MAX_RETRIES THEN qlog.attempts[l] ELSE MAX_RETRIES - 1)
        /\ qlog.dead[l] = 1 => ~InQueue(l, leads_to_enrich)

\* C30: the step that handles a popped payload ends it in exactly one
\* place: it is counted as a success and pushed nowhere, or pushed once
\* onto leads_to_enrich, or pushed once onto failed_leads; a payload that
\* is no valid JSON goes to failed_leads without being processed; and no
\* payload is ever on both lists or twice on one.
C30_ExactlyOnePlace ==
    /\ [][\A l \in Payloads :
            (qworker.pc = "handle" /\ qworker.lead_json = l /\ qworker'.pc = "pop")
                => /\ (qlog'.succeeded[l] - qlog.succeeded[l])
                        + (qlog'.requeued[l] - qlog.requeued[l])
                        + (qlog'.dead[l] - qlog.dead[l]) = 1
                   /\ qlog'.succeeded[l] >= qlog.succeeded[l]
                   /\ qlog'.requeued[l] >= qlog.requeued[l]
                   /\ qlog'.dead[l] >= qlog.dead[l]
                   /\ Len(leads_to_enrich') - Len(leads_to_enrich)
                        = qlog'.requeued[l] - qlog.requeued[l]
                   /\ Len(failed_leads') - Len(failed_leads) = qlog'.dead[l] - qlog.dead[l]
                   /\ l.json = "invalid"
                        => /\ qlog'.dead[l] = qlog.dead[l] + 1
                           /\ qlog'.attempts[l] = qlog.attempts[l]]_vars
    /\ [](\A l \in Payloads :
            /\ ~(InQueue(l, leads_to_enrich) /\ InQueue(l, failed_leads))
            /\ Cardinality({n \in 1..Len(leads_to_enrich) : leads_to_enrich[n] = l}) <= 1
            /\ Cardinality({n \in 1..Len(failed_leads) : failed_leads[n] = l}) <= 1
            /\ l.json = "invalid" => qlog.attempts[l] = 0 /\ qlog.requeued[l] = 0)

\* A lead was pushed back after a failure, and later dead-lettered; an
\* invalid payload went to failed_leads.
C30_Witness ==
    /\ qworker.pc = "pop"
    /\ \E l \in Payloads :
        l.json = "object" /\ qlog.requeued[l] = 2 /\ qlog.dead[l] = 1 /\ InQueue(l, failed_leads)
    /\ \E l \in Payloads :
        l.json = "invalid" /\ qlog.dead[l] = 1 /\ InQueue(l, failed_leads)
    /\ \E l \in Payloads : qlog.succeeded[l] = 1

(***************************************************************************)
(* Part VI.  BlueprintLoaderStation.process (blueprint_loader.py 68-156).  *)
(* Every read of the store may raise, json.loads raises on "garbage", and  *)
(* attempt_auto_map raises, declines or commits.                           *)
(***************************************************************************)
Parses == {"none", "json", "garbage"}

Hashes == {NoHash} \cup {Hash(TRUE, d, n) : d \in Parses, n \in Parses}

LoaderInit ==
    /\ EngineIdle
    /\ BridgeStart("off")
    /\ StationOff
    /\ ShieldOff
    /\ leads_to_enrich = <<>>
    /\ QueueOff
    /\ RunsOff
    /\ AuxOff
    /\ \E current \in Hashes, legacy \in Hashes : loader = Loader("select", current, legacy)

loaderFrame ==
    <<engineVars, bridgeVars, stationVars, shieldVars, queueVars, run_store, run_task, stream,
      auxVars>>

\* blueprint_loader.py 29-36 and 84.
_PROVIDER_TO_DOMAIN(provider) ==
    CASE provider = "FastPeopleSearch" -> "fastpeoplesearch.com"
      [] provider = "TruePeopleSearch" -> "truepeoplesearch.com"
      [] provider = "ZabaSearch" -> "zabasearch.com"
      [] provider = "SearchPeopleFree" -> "searchpeoplefree.com"
      [] provider = "ThatsThem" -> "thatsthem.com"
      [] provider = "AnyWho" -> "anywho.com"

\* blueprint_loader.py 72-85: the provider the router gives, or
\* TruePeopleSearch when it raises or gives none.
LoaderSelect(provider) ==
    /\ loader.pc = "select"
    /\ loader' = [loader EXCEPT
                    !.pc = "fetch",
                    !.domain = _PROVIDER_TO_DOMAIN(IF provider = NoProvider
                                                   THEN "TruePeopleSearch" ELSE provider)]
    /\ UNCHANGED loaderFrame

\* blueprint_loader.py 88-96: raw after the loop over the two prefixes; a
\* read that raises leaves raw as it was, an empty hash is falsy.
FetchRaw(current, legacy, fails1, fails2) ==
    IF ~fails1 /\ current.exists THEN current
    ELSE IF ~fails2 THEN legacy
    ELSE NoHash

\* blueprint_loader.py 113-119 without the assignment of line 104.
FallbackDelta(domain) == [NoDelta EXCEPT !._blueprint = "instructions"]

\* json.dumps of a blueprint: the text of a data field.
json_dumps(blueprint) == [data |-> "json", of |-> blueprint]

\* json.loads of a data field: the blueprint it is the dump of; it raises
\* on text that is no JSON.
json_loads(text, of) == IF text = "json" THEN of ELSE "raised"

\* blueprint_loader.py 102-104 and 136-138.
LoadedDelta(raw, domain) ==
    [NoDelta EXCEPT !._blueprint = json_loads(raw.data, raw.of), !._blueprint_domain = domain]

\* blueprint_loader.py 98-121: the delta a usable hash gives, NoDelta
\* when there is none.
DeltaOf(raw, domain) ==
    IF ~raw.exists THEN NoDelta
    ELSE IF raw.data # "none" /\ json_loads(raw.data, raw.of) # "raised"
         THEN LoadedDelta(raw, domain)
    ELSE IF raw.instructions = "json" THEN FallbackDelta(domain)
    ELSE NoDelta

LoaderFetch(fails1, fails2) ==
    /\ loader.pc = "fetch"
    /\ LET delta == DeltaOf(FetchRaw(loader.current, loader.legacy, fails1, fails2),
                            loader.domain)
       IN  loader' = IF delta # NoDelta
                     THEN [loader EXCEPT !.pc = "done", !.out = delta, !.returned = "CONTINUE"]
                     ELSE [loader EXCEPT !.pc = "auto_map"]
    /\ UNCHANGED loaderFrame

\* blueprint_loader.py 130-143: the re-read after a commit; only a data
\* field that parses is used, every exception is passed over.
RereadDelta(current, legacy, fails1, fails2, domain) ==
    IF ~fails1 /\ current.exists /\ current.data = "json" THEN LoadedDelta(current, domain)
    ELSE IF ~fails2 /\ legacy.exists /\ legacy.data = "json" THEN LoadedDelta(legacy, domain)
    ELSE NoDelta

\* blueprint_commit.py 27-36: hset on blueprint:{domain} writes the data
\* field and leaves the fields it does not name.
commit_blueprint_impl(legacy, blueprint) ==
    [legacy EXCEPT !.exists = TRUE, !.data = json_dumps(blueprint).data,
                   !.of = json_dumps(blueprint).of]

\* blueprint_loader.py 124-146 with auto_map.py 150-158 and
\* blueprint_commit.py 27-36: a commit writes a data field that parses
\* under blueprint:{domain}.
LoaderAutoMap(res, fails1, fails2) ==
    /\ loader.pc = "auto_map"
    /\ LET legacy == IF res = "committed"
                     THEN commit_blueprint_impl(loader.legacy, "auto")
                     ELSE loader.legacy
           delta == IF res = "committed"
                    THEN RereadDelta(loader.current, legacy, fails1, fails2, loader.domain)
                    ELSE NoDelta
       IN  loader' = IF delta # NoDelta
                     THEN [loader EXCEPT !.legacy = legacy, !.pc = "done", !.out = delta,
                                         !.returned = "CONTINUE"]
                     ELSE [loader EXCEPT !.legacy = legacy, !.pc = "alert"]
    /\ UNCHANGED loaderFrame

\* blueprint_loader.py 148-156.
LoaderAlert ==
    /\ loader.pc = "alert"
    /\ loader' = [loader EXCEPT
                    !.alerts = @ \cup {loader.domain},
                    !.need_mapping = @ \cup {loader.domain},
                    !.out = [@ EXCEPT !._mapping_required = loader.domain],
                    !.pc = "done",
                    !.returned = "CONTINUE"]
    /\ UNCHANGED loaderFrame

LoaderNext ==
    \/ \E provider \in Providers \cup {NoProvider} : LoaderSelect(provider)
    \/ \E fails1 \in BOOLEAN, fails2 \in BOOLEAN : LoaderFetch(fails1, fails2)
    \/ \E res \in {"raises", "declined", "committed"}, fails1 \in BOOLEAN, fails2 \in BOOLEAN :
          LoaderAutoMap(res, fails1, fails2)
    \/ LoaderAlert

LoaderSpec == LoaderInit /\ [][LoaderNext]_vars

\* C25: process returns CONTINUE on every path, and its delta holds
\* either _blueprint with _blueprint_domain and no _mapping_required, or
\* _mapping_required alone, and then the domain is in
\* dojo:domains_need_mapping and its alert was published.
C25_BlueprintOrMappingRequired ==
    /\ loader.returned \in {"none", "CONTINUE"}
    /\ loader.pc = "done" =>
          /\ loader.returned = "CONTINUE"
          /\ \/ /\ loader.out._blueprint # "none"
                /\ loader.out._blueprint_domain = loader.domain
                /\ loader.out._mapping_required = "none"
             \/ /\ loader.out._blueprint = "none"
                /\ loader.out._blueprint_domain = "none"
                /\ loader.out._mapping_required = loader.domain
                /\ loader.domain \in loader.need_mapping
                /\ loader.domain \in loader.alerts

(***************************************************************************)
(* Part VII.  The run registry and the NDJSON stream (main.py 266-515):    *)
(* process_one_start, _background_run, process_one_status,                 *)
(* process_one_stream and the generator _process_one_stream_gen they       *)
(* share.                                                                  *)
(***************************************************************************)
\* The objects among the payloads are leads; the others are what a queue
\* can hold besides.
RunPayloads ==
    {QLead("object", Null, "Ann", "x"), QLead("object", "u1", "Bob", "x"),
     QLead("invalid", Null, Null, "x"), QLead("array", Null, Null, "x")}

RunInit ==
    /\ EngineIdle
    /\ BridgeStart("off")
    /\ StationOff
    /\ ShieldOff
    /\ QueueOff
    /\ LoaderOff
    /\ RunsOff
    /\ AuxOff
    /\ leads_to_enrich \in Arrangements(RunPayloads)

runFrame ==
    <<engineVars, bridgeVars, stationVars, shieldVars, failed_leads, qworker, qlog, loader,
      auxVars>>

\* What _infer_failure returns: (mode, at, hint).
Failure(mode, at, hint) == [mode |-> mode, at |-> at, hint |-> hint]

Undecided == Failure(Absent, Absent, Absent)

\* main.py 271-288: the verdict one substep gives; the substring tests
\* are taken on whole substep names.
SubstepFailure(ev) ==
    CASE ev.substep = "mapping_required" -> Failure("MAPPING", "BlueprintLoader", "hint")
      [] ev.substep \in {"pivot_selector_fail", "pivot_result_fail"} ->
            Failure("SELECTOR", "ChimeraCore", "hint")
      [] ev.substep = "capsolver_fail" -> Failure("CAPTCHA", "ChimeraCore", "hint")
      [] ev.substep \in {"vlm_fail", "captcha_fail"} -> Failure("CAPTCHA", "ChimeraCore", "hint")
      [] ev.substep = "timeout" /\ ev.station = "chimera" ->
            Failure("CORE_TIMEOUT", "ChimeraCore", "hint")
      [] ev.substep \in {"parse_fail", "core_failed", "core_bad_type"} ->
            Failure("CORE_RESULT", "ChimeraStation", "hint")
      [] OTHER -> Undecided

\* main.py 270-288: the latest substep that gives a verdict.
RECURSIVE LatestSubstepFailure(_)
LatestSubstepFailure(recent) ==
    IF recent = <<>> THEN Undecided
    ELSE IF SubstepFailure(recent[Len(recent)]) # Undecided
         THEN SubstepFailure(recent[Len(recent)])
         ELSE LatestSubstepFailure(SubSeq(recent, 1, Len(recent) - 1))

\* main.py 290-299: the first failed step.
RECURSIVE FirstStepFailure(_)
FirstStepFailure(steps) ==
    IF steps = <<>> THEN Failure("UNKNOWN", Null, "hint")
    ELSE IF Head(steps).status = "fail"
         THEN IF Head(steps).station = "Blueprint Loader"
              THEN Failure("MAPPING", Head(steps).station, "hint")
              ELSE IF Head(steps).station = "Chimera"
                   THEN Failure("CORE", Head(steps).station, "hint")
                   ELSE Failure("DOWNSTREAM", Head(steps).station, "hint")
         ELSE FirstStepFailure(Tail(steps))

\* main.py 266-300.
_infer_failure(success, steps, recent) ==
    IF success THEN Failure(Null, Null, "")
    ELSE IF LatestSubstepFailure(recent) # Undecided THEN LatestSubstepFailure(recent)
    ELSE FirstStepFailure(steps)

\* What task.result() gives: the pair a run returns, or an exception.
ThreadResult(raised, ok, steps) == [raised |-> raised, ok |-> ok, steps |-> steps]

\* main.py 310 hands process_lead_with_steps three arguments,
\* redis_queue_worker.py 124 takes two: the call raises TypeError in the
\* thread, before the pipeline is entered and before any progress event.
ThreadOutcome == ThreadResult(TRUE, FALSE, <<>>)

\* main.py 342-346 and 363-367: the keys added when fm is truthy.
WithFailure(line, failure) ==
    IF failure.mode = Null THEN line
    ELSE [line EXCEPT !.failure_mode = failure.mode, !.failure_at = failure.at,
                      !.hint = failure.hint]

\* main.py 332-370: the final event, from the try or the except branch.
FinalEvent(result, recent) ==
    IF result.raised
    THEN WithFailure(Line(Absent, "true", "true", "false", Absent, Absent, Absent),
                     _infer_failure(FALSE, <<>>, recent))
    ELSE WithFailure(Line(Absent, "true", "true", IF result.ok THEN "true" ELSE "false",
                          Absent, Absent, Absent),
                     _infer_failure(result.ok, result.steps, recent))

\* main.py 312.
StreamStarted == Line("stream_started", Absent, Absent, Absent, Absent, Absent, Absent)

\* main.py 382-385.
EmptyEvent == Line(Absent, "true", "false", Absent, "EMPTY", Absent, "hint")

\* main.py 402-406.
StartupEvent == Line(Absent, "true", "false", Absent, "STARTUP", Absent, "hint")

\* main.py 468: uuid.uuid4() gives an id no run has.
FreshRunId == IF run_task["r1"].pc = "off" THEN "r1" ELSE "r2"

\* main.py 424: a status write that forgets the result.
hset_done_status_only(rec, obj) == [rec EXCEPT !.status = "done"]

\* main.py 424.
hset_done(rec, obj) == [rec EXCEPT !.status = "done", !.result = obj]

\* main.py 421.
hset_progress(rec, obj) == [rec EXCEPT !.progress = obj]

\* main.py 429.
hset_error(rec) == [rec EXCEPT !.status = "error", !.error = "raised"]

\* A loop that takes no event for the final one.
IsDoneNever(obj) == FALSE

\* main.py 423: obj.get("done").
IsDone(obj) == obj.done = "true"

\* main.py 437-486, process_one_start with a payload on the queue (with
\* none, the EMPTY answer changes nothing): an object starts a run, any
\* other payload is popped and answered with STARTUP.
StartRun ==
    /\ leads_to_enrich # <<>>
    /\ leads_to_enrich' = Front(leads_to_enrich)
    /\ IF Tail1(leads_to_enrich).json = "object"
       THEN /\ run_task[FreshRunId].pc = "off"
            /\ run_store' = [run_store EXCEPT
                               ![FreshRunId] = RunRecord("running", NoLine, NoLine, "none")]
            /\ run_task' = [run_task EXCEPT
                              ![FreshRunId] = RunTask("created", Gen("new", "none"), @.polled)]
       ELSE UNCHANGED <<run_store, run_task>>
    /\ UNCHANGED <<stream, runFrame>>

\* main.py 413-422 with 303-312: the task's first step, up to the first
\* line; the import of line 305 may raise (428-430).
BgStart(r, importable) ==
    /\ run_task[r].pc = "created"
    /\ IF importable
       THEN /\ run_task' = [run_task EXCEPT ![r].pc = "iter", ![r].gen = Gen("loop", "running")]
            /\ run_store' = [run_store EXCEPT ![r] = hset_progress(@, StreamStarted)]
       ELSE /\ run_task' = [run_task EXCEPT ![r].pc = "returned", ![r].gen = Gen("raised", "none")]
            /\ run_store' = [run_store EXCEPT ![r] = hset_error(@)]
    /\ UNCHANGED <<leads_to_enrich, stream, runFrame>>

\* The thread of main.py 310 ends.
ThreadEnds(r) ==
    /\ run_task[r].gen.task = "running"
    /\ run_task' = [run_task EXCEPT ![r].gen.task = "done"]
    /\ UNCHANGED <<leads_to_enrich, run_store, stream, runFrame>>

\* main.py 316-319 and 332-370, then 417-426: once the task is done the
\* generator gives its final event; without a done key the generator
\* would end next and the loop with it, no status written.
BgFinal(r) ==
    /\ run_task[r].pc = "iter"
    /\ run_task[r].gen.task = "done"
    /\ run_task' = [run_task EXCEPT ![r].pc = "returned", ![r].gen.pc = "final"]
    /\ run_store' = [run_store EXCEPT
                       ![r] = IF IsDone(FinalEvent(ThreadOutcome, <<>>))
                              THEN hset_done(hset_progress(@, FinalEvent(ThreadOutcome, <<>>)),
                                             FinalEvent(ThreadOutcome, <<>>))
                              ELSE hset_progress(@, FinalEvent(ThreadOutcome, <<>>))]
    /\ UNCHANGED <<leads_to_enrich, stream, runFrame>>

\* main.py 496-515, process_one_status.
StatusPoll(r) ==
    /\ run_task' = [run_task EXCEPT
                      ![r].polled = IF run_store[r].status = "none" THEN "404"
                                    ELSE run_store[r].status]
    /\ UNCHANGED <<leads_to_enrich, run_store, stream, runFrame>>

\* main.py 374-410, process_one_stream; one response is followed at a time.
StreamRequest ==
    /\ ~stream.open
    /\ IF leads_to_enrich = <<>>
       THEN /\ stream' = Response(NoGen, <<EmptyEvent>>, FALSE)
            /\ UNCHANGED leads_to_enrich
       ELSE /\ leads_to_enrich' = Front(leads_to_enrich)
            /\ stream' = IF Tail1(leads_to_enrich).json = "invalid"
                         THEN Response(NoGen, <<StartupEvent>>, FALSE)
                         ELSE Response(Gen("new", "none"), <<>>, TRUE)
    /\ UNCHANGED <<run_store, run_task, runFrame>>

\* main.py 303-312 under StreamingResponse: the first line, or the
\* import raising and the body ending there.
StreamStart(importable) ==
    /\ stream.open
    /\ stream.gen.pc = "new"
    /\ stream' = IF importable
                 THEN Response(Gen("loop", "running"), Append(stream.events, StreamStarted), TRUE)
                 ELSE Response(Gen("raised", "none"), stream.events, FALSE)
    /\ UNCHANGED <<leads_to_enrich, run_store, run_task, runFrame>>

StreamThreadEnds ==
    /\ stream.gen.task = "running"
    /\ stream' = [stream EXCEPT !.gen.task = "done"]
    /\ UNCHANGED <<leads_to_enrich, run_store, run_task, runFrame>>

\* main.py 316-319 and 332-370.
StreamFinal ==
    /\ stream.open
    /\ stream.gen.pc = "loop"
    /\ stream.gen.task = "done"
    /\ stream' = [stream EXCEPT !.gen.pc = "final",
                                !.events = Append(@, FinalEvent(ThreadOutcome, <<>>))]
    /\ UNCHANGED <<leads_to_enrich, run_store, run_task, runFrame>>

\* The generator returns and the body is complete.
StreamEnd ==
    /\ stream.open
    /\ stream.gen.pc = "final"
    /\ stream' = [stream EXCEPT !.gen.pc = "end", !.open = FALSE]
    /\ UNCHANGED <<leads_to_enrich, run_store, run_task, runFrame>>

RunNext ==
    \/ StartRun
    \/ \E r \in RunIds, importable \in BOOLEAN : BgStart(r, importable)
    \/ \E r \in RunIds : ThreadEnds(r)
    \/ \E r \in RunIds : BgFinal(r)
    \/ \E r \in RunIds : StatusPoll(r)
    \/ StreamRequest
    \/ \E importable \in BOOLEAN : StreamStart(importable)
    \/ StreamThreadEnds
    \/ StreamFinal
    \/ StreamEnd

RunSpec == RunInit /\ [][RunNext]_vars

\* The event loop runs every task it holds and the thread pool every
\* thread: a background run that can take a step takes it.  Requests
\* (StartRun, StatusPoll, the stream endpoint) are under no obligation.
RunFairness ==
    \A r \in RunIds :
        /\ WF_vars(\E importable \in BOOLEAN : BgStart(r, importable))
        /\ WF_vars(ThreadEnds(r))
        /\ WF_vars(BgFinal(r))

FairRunSpec == RunSpec /\ RunFairness

\* C22: a run record's status is running, done or error; it starts as
\* running and changes only from running to done or from running to
\* error; while it is done, result holds the final event, whose done key
\* is true.
C22_RunStatusOneWay ==
    /\ [](\A r \in RunIds :
            /\ run_store[r].status \in {"none", "running", "done", "error"}
            /\ run_task[r].polled \in {"none", "404", "running", "done", "error"}
            /\ run_store[r].status = "done" =>
                  /\ run_store[r].result = FinalEvent(ThreadOutcome, <<>>)
                  /\ run_store[r].result.done = "true")
    /\ [][\A r \in RunIds :
            run_store'[r].status # run_store[r].status =>
               <<run_store[r].status, run_store'[r].status>> \in
                  {<<"none", "running">>, <<"running", "done">>, <<"running", "error">>}]_vars

\* One run ended done and the other ended error.
C22_Witness ==
    /\ run_store["r1"].status = "done"
    /\ run_store["r2"].status = "error"

\* C23: every run process_one_start has started leaves running: its
\* record reaches done or error, whether or not anyone polls.
C23_RunLeavesRunning ==
    \A r \in RunIds :
        (run_store[r].status = "running") ~> (run_store[r].status \in {"done", "error"})

\* Both runs were started and ended, one with the thread raising and one
\* with the generator raising, and neither was ever polled.
C23_Witness ==
    /\ run_task["r1"].polled = "none"
    /\ run_task["r2"].polled = "none"
    /\ run_store["r1"].status = "error"
    /\ run_store["r2"].status = "done"

\* The modes the stream contract lists.
ListedModes ==
    {"MAPPING", "SELECTOR", "CAPTCHA", "CORE_TIMEOUT", "CORE_RESULT", "DOWNSTREAM",
     "UNKNOWN", "EMPTY", "STARTUP"}

\* C24: a complete NDJSON stream starts with stream_started, holds one
\* event with done true, its last; that event carries success; with
\* success false it carries failure_mode (one of the listed modes),
\* failure_at and hint, with success true it carries no failure_mode.
C24_StreamShape ==
    /\ stream.events # <<>> /\ stream.open => stream.events[1] = StreamStarted
    /\ stream.events # <<>> /\ ~stream.open =>
          /\ stream.events[1] = StreamStarted
          /\ \A n \in 1..Len(stream.events) :
                stream.events[n].done = "true" <=> n = Len(stream.events)
          /\ LET final_event == stream.events[Len(stream.events)]
             IN  /\ final_event.success \in {"true", "false"}
                 /\ final_event.success = "false" =>
                       /\ final_event.failure_mode \in ListedModes
                       /\ final_event.failure_at # Absent
                       /\ final_event.hint # Absent
                 /\ final_event.success = "true" => final_event.failure_mode = Absent

(***************************************************************************)
(* Part VIII.  The queue worker running the engine: process_lead_async     *)
(* (redis_queue_worker.py 61-98) hands the popped lead to engine.run and   *)
(* takes the saved key of what it returns as the attempt's result.         *)
(***************************************************************************)
\* The route the worker's engine runs, as far as it goes through the
\* stations above.
WorkerRoute == <<"Chimera Deep Search", "Telnyx Gatekeep", "Database Save">>

\* The leads on the queue: one with a linkedinUrl, one without.
WorkerLeads == {QLead("object", "u1", "Bob", "x"), QLead("object", Null, "Ann", "x")}

\* json.loads of the payload: the keys the lead came with.
PayloadData(l) ==
    Lead({"name"} \cup (IF l.linkedinUrl = Null THEN {} ELSE {"linkedinUrl"}), {})

WorkerRunInit ==
    /\ EngineIdle
    /\ BridgeStart("off")
    /\ StationOff
    /\ ShieldOff
    /\ leads_to_enrich \in Arrangements(WorkerLeads) \ {<<>>}
    /\ failed_leads = <<>>
    /\ qworker = QWorker("pop", NoPayload, [k \in LeadKeys |-> 0], 0)
    /\ qlog = NoQLog
    /\ LoaderOff
    /\ RunsOff
    /\ AuxOff

\* redis_queue_worker.py 216-222 and 76-82: the lead is parsed and
\* engine.run starts on it, with the default budget and no progress
\* queue.
QRun ==
    /\ qworker.pc = "handle"
    /\ qworker.lead_json.json = "object"
    /\ qworker' = [qworker EXCEPT !.pc = "run"]
    /\ route' = WorkerRoute
    /\ budget_limit' = 500
    /\ has_sink' = FALSE
    /\ data' = PayloadData(qworker.lead_json)
    /\ total_cost' = 0
    /\ history' = <<>>
    /\ errors' = <<>>
    /\ progress' = <<>>
    /\ i' = 0
    /\ pc' = "loop"
    /\ started' = 0
    /\ invoked' = <<>>
    /\ last' = NoOutcome
    /\ final' = NotReturned
    /\ UNCHANGED <<leads_to_enrich, failed_leads, qlog>>
    /\ UNCHANGED <<bridgeVars, stationVars, shieldVars, apiVars, auxVars>>

\* An attempt that would count as saved whenever the run broke off with
\* SKIP_REMAINING.
SavedOrSkipped(result) ==
    \/ Truthy(result.data["saved"]) /\ result.data["saved"] # "false"
    \/ (history # <<>> /\ history[Len(history)].status = SKIP_REMAINING)

\* redis_queue_worker.py 84-86: enriched_data.get('saved').
Saved(result) == Truthy(result.data["saved"]) /\ result.data["saved"] # "false"

\* redis_queue_worker.py 84-98 and 224-244: the run has returned and the
\* worker settles the attempt.
QSettle ==
    /\ qworker.pc = "run"
    /\ pc = "done"
    /\ QOutcome(Saved(final))
    /\ UNCHANGED queueFrame

WorkerRunNext ==
    \/ QPop
    \/ QRun
    \/ StartStation
    \/ StationReturns
    \/ StationRaisesStructured
    \/ StationRaisesUntyped
    \/ Return
    \/ QSettle

WorkerRunSpec == WorkerRunInit /\ [][WorkerRunNext]_vars

\* The run that has just returned broke off at Telnyx Gatekeep with
\* SKIP_REMAINING, before Database Save.
RejectedByGate ==
    /\ qworker.pc = "run"
    /\ pc = "done"
    /\ history # <<>>
    /\ history[Len(history)].station = "Telnyx Gatekeep"
    /\ history[Len(history)].status = SKIP_REMAINING

\* C31: a run ended by Telnyx Gatekeep with SKIP_REMAINING is settled as
\* a success: the attempt is counted as succeeded, the lead's retry count
\* is not raised, and the lead is pushed neither back onto
\* leads_to_enrich nor onto failed_leads.
C31_GateRejectionIsSuccess ==
    [][(RejectedByGate /\ qworker'.pc = "pop") =>
          /\ qlog'.succeeded[qworker.lead_json] = qlog.succeeded[qworker.lead_json] + 1
          /\ qworker'.retry_count[LeadKey(qworker.lead_json)] = 0
          /\ leads_to_enrich' = leads_to_enrich
          /\ failed_leads' = failed_leads]_vars

(***************************************************************************)
(* Part IX.  commit_blueprint_impl (blueprint_commit.py 17-70) followed    *)
(* by a loader run.  The hashes are those of the committed domain; a run   *)
(* that resolves to another domain is not followed.  Reads do not raise.   *)
(***************************************************************************)
Domains == {_PROVIDER_TO_DOMAIN(p) : p \in Providers}

Blueprints == {"bp1", "bp2"}

CommitInit ==
    /\ EngineIdle
    /\ BridgeStart("off")
    /\ StationOff
    /\ ShieldOff
    /\ leads_to_enrich = <<>>
    /\ QueueOff
    /\ RunsOff
    /\ AuxOff
    /\ \E current \in Hashes, legacy \in Hashes, domain \in Domains :
          \E need_mapping \in {{}, {domain}} :
            loader = [Loader("commit", current, legacy) EXCEPT
                        !.domain = domain, !.need_mapping = need_mapping]

\* blueprint_commit.py 27-36 and 64-69.
Commit(blueprint) ==
    /\ loader.pc = "commit"
    /\ loader' = [loader EXCEPT
                    !.pc = "select",
                    !.legacy = commit_blueprint_impl(@, blueprint),
                    !.need_mapping = @ \ {loader.domain},
                    !.committed = blueprint]
    /\ UNCHANGED loaderFrame

\* blueprint_loader.py 72-85: the next run, followed when it resolves to
\* the committed domain.
CommitSelect(provider) ==
    /\ loader.pc = "select"
    /\ loader' = [loader EXCEPT
                    !.pc = IF _PROVIDER_TO_DOMAIN(provider) = loader.domain
                           THEN "fetch" ELSE "other"]
    /\ UNCHANGED loaderFrame

CommitNext ==
    \/ \E blueprint \in Blueprints : Commit(blueprint)
    \/ \E provider \in Providers : CommitSelect(provider)
    \/ LoaderFetch(FALSE, FALSE)
    \/ \E res \in {"raises", "declined", "committed"} : LoaderAutoMap(res, FALSE, FALSE)
    \/ LoaderAlert

CommitSpec == CommitInit /\ [][CommitNext]_vars

\* C32: the loader run that follows commit_blueprint_impl(domain, bp) and
\* resolves to that domain returns _blueprint = bp, whatever the two
\* hashes held before, and the domain is not in
\* dojo:domains_need_mapping.
C32_CommittedBlueprintIsLoaded ==
    (loader.pc = "done" /\ loader.committed # "none") =>
        /\ loader.out._blueprint = loader.committed
        /\ loader.domain \notin loader.need_mapping

(***************************************************************************)
(* Part X.  attempt_auto_map (auto_map.py 93-169) called for one domain    *)
(* by several callers; the HTML fetch is awaited between the rate check    *)
(* and the write of the rate key.                                          *)
(***************************************************************************)
AutoMapInit ==
    /\ EngineIdle
    /\ BridgeStart("off")
    /\ StationOff
    /\ ShieldOff
    /\ leads_to_enrich = <<>>
    /\ QueueOff
    /\ LoaderOff
    /\ RunsOff
    /\ TelemetryOff
    /\ RetryOff
    /\ GuardOff
    /\ RecorderOff
    /\ \E rate \in BOOLEAN :
          automap = AutoMap(rate, [a \in Callers |-> Attempt("idle", "none")], 0)

autoMapFrame ==
    <<engineVars, bridgeVars, stationVars, shieldVars, queueVars, apiVars,
      telemetry, retry_op, guard, recorder>>

\* A check that would take the key at once (SET NX) and pass only when it
\* was absent.
RateCheckedAndSet(rate) == TRUE

\* auto_map.py 100-101 leaves the key as it is.
RateChecked(rate) == rate

\* auto_map.py 98-101: the call returns rate_limited when the key is set
\* and otherwise goes on to the fetch.
AutoMapCheck(a) ==
    /\ automap.attempt[a].pc = "idle"
    /\ automap' = IF automap.rate
                  THEN [automap EXCEPT !.attempt[a] = Attempt("done", "rate_limited")]
                  ELSE [automap EXCEPT !.attempt[a] = Attempt("fetch", "none"),
                                       !.rate = RateChecked(@),
                                       !.passed = @ + 1]
    /\ UNCHANGED autoMapFrame

\* The statuses a call that passed the check returns.
AutoMapStatuses ==
    {"fetch_failed", "empty_html", "captcha", "no_selectors", "committed", "commit_error",
     "pending", "rejected"}

\* auto_map.py 103-169: each return sets the rate key.
AutoMapFinish(a, status) ==
    /\ automap.attempt[a].pc = "fetch"
    /\ automap' = [automap EXCEPT !.attempt[a] = Attempt("done", status), !.rate = TRUE]
    /\ UNCHANGED autoMapFrame

\* A later run, or a later request, of the same caller.
AutoMapAgain(a) ==
    /\ automap.attempt[a].pc = "done"
    /\ automap' = [automap EXCEPT !.attempt[a] = Attempt("idle", "none")]
    /\ UNCHANGED autoMapFrame

\* auto_map.py 19: the key expires AUTO_MAP_RATE_TTL after it was set.
AutoMapExpire ==
    /\ automap.rate
    /\ automap' = [automap EXCEPT !.rate = FALSE, !.passed = 0]
    /\ UNCHANGED autoMapFrame

AutoMapNext ==
    \/ \E a \in Callers : AutoMapCheck(a)
    \/ \E a \in Callers, status \in AutoMapStatuses : AutoMapFinish(a, status)
    \/ \E a \in Callers : AutoMapAgain(a)
    \/ AutoMapExpire

AutoMapSpec == AutoMapInit /\ [][AutoMapNext]_vars

\* C33: within one rate window at most one call passes the rate check
\* and reaches the fetch; a call that passed the check leaves the key set
\* when it returns; a call made while the key is set returns rate_limited.
C33_OneAttemptPerWindow ==
    /\ [](automap.passed <= 1)
    /\ [][\A a \in Callers :
            /\ (automap.attempt[a].pc = "fetch" /\ automap'.attempt[a].pc = "done")
                  => automap'.rate
            /\ (automap.attempt[a].pc = "idle" /\ automap'.attempt[a].pc # "idle" /\ automap.rate)
                  => automap'.attempt[a].status = "rate_limited"]_vars

(***************************************************************************)
(* Part XI.  The core worker's consumer loop (chimera-core/main.py         *)
(* 360-516) with its pause gate, the two writers of SYSTEM_STATE:PAUSED    *)
(* (capsolver.py 55-93, vision_service.py 64-78) and the operator who      *)
(* deletes the key.                                                        *)
(***************************************************************************)
\* The deep_search missions on chimera:missions when the loop starts.
CoreMission(id) == [mission_id |-> id, target_provider |-> MAGAZINE[1], lead |-> "p1"]

\* Up to two of them, in any order.
CoreQueues ==
    {[n \in 1..Len(a) |-> CoreMission(a[n])] : a \in {b \in Arrangements(Ids) : Len(b) <= 2}}

\* The store and the loop, the station's variables apart.
CoreStart ==
    /\ EngineIdle
    /\ missions \in CoreQueues
    /\ results = [k \in Ids |-> <<>>]
    /\ mstatus = [m \in Ids |-> "none"]
    /\ dlq = <<>>
    /\ pipe = [p \in Pipelines |-> PipeLocals("off")]
    /\ worker = [w \in Workers |-> WorkerLocals]
    /\ dispatched = {[mission_id |-> missions[n].mission_id, by |-> missions[n].lead, n |-> n] :
                        n \in 1..Len(missions)}
    /\ consumed = EmptyBag
    /\ recorded = EmptyBag
    /\ paused \in BOOLEAN
    /\ ShieldOff
    /\ leads_to_enrich = <<>>
    /\ QueueOff
    /\ LoaderOff
    /\ RunsOff
    /\ AutoMapOff
    /\ TelemetryOff
    /\ RetryOff
    /\ RecorderOff
    /\ guard = GuardStart("idle")

CoreInit ==
    /\ CoreStart
    /\ lead = NoStationLead
    /\ blacklist = [P \in Providers |-> 0]
    /\ st = StationLocals("off", FALSE)
    /\ pushes = <<>>

\* What the loop and the writers of the flag leave alone.
coreFrame ==
    <<engineVars, pipe, dispatched, consumed, recorded, lead, blacklist, st, pushes,
      shieldVars, queueVars, apiVars, automap, telemetry, retry_op, recorder>>

\* The missions a worker is executing.
Executing == {worker[w].mission.mission_id : w \in {v \in Workers : worker[v].pc = "exec"}}

\* main.py 360-378: BRPOP takes the payload at the tail; the gate is next.
CorePop(w) ==
    /\ worker[w].pc = "pop"
    /\ missions # <<>>
    /\ missions' = Front(missions)
    /\ worker' = [worker EXCEPT ![w].mission = Tail1(missions), ![w].pc = "gate"]
    /\ UNCHANGED <<results, mstatus, dlq, paused, guard>>
    /\ UNCHANGED coreFrame

\* A gate that lets every mission through.
StartsMissionAlways(flag) == TRUE

\* main.py 381: the mission is started when the key is absent.
StartsMission(flag) == ~flag

\* main.py 381, 386: one read of the flag; clear: on to the execution; set:
\* on to the re-queue.
CoreGate(w) ==
    /\ worker[w].pc = "gate"
    /\ IF StartsMission(paused)
       THEN /\ worker' = [worker EXCEPT ![w].pc = "exec"]
            /\ guard' = [guard EXCEPT !.passes[worker[w].mission.mission_id] = @ + 1]
       ELSE /\ worker' = [worker EXCEPT ![w].pc = "requeue"]
            /\ UNCHANGED guard
    /\ UNCHANGED <<missions, results, mstatus, dlq, paused>>
    /\ UNCHANGED coreFrame

\* A re-queue that forgets the payload.
RequeueDropped(queue, payload) == queue

\* main.py 382: r.lpush(mission_queue, payload).
Requeue(queue, payload) == LPush(queue, payload)

\* main.py 382-385: the payload goes back, the loop sleeps 30 s and pops
\* again.
CoreRequeue(w) ==
    /\ worker[w].pc = "requeue"
    /\ missions' = Requeue(missions, worker[w].mission)
    /\ worker' = [worker EXCEPT ![w] = WorkerLocals]
    /\ guard' = [guard EXCEPT !.requeued = @ \cup {worker[w].mission.mission_id}]
    /\ UNCHANGED <<results, mstatus, dlq, paused>>
    /\ UNCHANGED coreFrame

\* capsolver.py 89-93: a mission in execution calls solve_recaptcha_v2.
SolveBegin ==
    /\ guard.solve \in {"idle", "raised"}
    /\ Executing # {}
    /\ guard' = [guard EXCEPT !.solve = "balance", !.created = FALSE]
    /\ UNCHANGED <<missions, results, mstatus, dlq, worker, paused>>
    /\ UNCHANGED coreFrame

\* capsolver.py 78-87: _require_balance; below MIN_BALANCE the key is set
\* (59) and RuntimeError is raised.
RequireBalance ==
    /\ guard.solve = "balance"
    /\ \E bal \in Balances :
        IF bal < MIN_BALANCE
        THEN /\ paused' = TRUE
             /\ guard' = [guard EXCEPT !.solve = "raised", !.bal = bal,
                                       !.caught = IF paused THEN @ ELSE @ \cup Executing]
        ELSE /\ guard' = [guard EXCEPT !.solve = "task", !.bal = bal]
             /\ UNCHANGED paused
    /\ UNCHANGED <<missions, results, mstatus, dlq, worker>>
    /\ UNCHANGED coreFrame

\* capsolver.py 94-105: the createTask request.
CreateTask ==
    /\ guard.solve = "task"
    /\ guard' = [guard EXCEPT !.solve = "idle", !.created = TRUE]
    /\ UNCHANGED <<missions, results, mstatus, dlq, worker, paused>>
    /\ UNCHANGED coreFrame

\* vision_service.py 276-280, 312-316: an inference that took longer than
\* VLM_LATENCY_GUARD_SEC sets the key (68).
VlmInference ==
    /\ \E elapsed \in Latencies :
        IF elapsed > VLM_LATENCY_GUARD_SEC
        THEN /\ paused' = TRUE
             /\ guard' = [guard EXCEPT !.caught = IF paused THEN @ ELSE @ \cup Executing]
        ELSE UNCHANGED <<paused, guard>>
    /\ UNCHANGED <<missions, results, mstatus, dlq, worker>>
    /\ UNCHANGED coreFrame

\* The operator deletes the key.
OperatorClears ==
    /\ paused
    /\ paused' = FALSE
    /\ UNCHANGED <<missions, results, mstatus, dlq, worker, guard>>
    /\ UNCHANGED coreFrame

CoreNext ==
    \/ \E w \in Workers :
        \/ CorePop(w)
        \/ CoreGate(w)
        \/ CoreRequeue(w)
        \/ WorkerExecute(w)
    \/ SolveBegin
    \/ RequireBalance
    \/ CreateTask
    \/ VlmInference
    \/ OperatorClears

CoreSpec == CoreInit /\ [][CoreNext]_vars

\* asyncio.wait_for(..., timeout=mission_timeout) (main.py 416) ends every
\* execution, so a worker that is executing goes on to its reply.
CoreFairness == \A w \in Workers : WF_vars(WorkerExecute(w))

FairCoreSpec == CoreSpec /\ CoreFairness

Queued(id) == {n \in 1..Len(missions) : missions[n].mission_id = id}

Held(id) ==
    {w \in Workers : worker[w].pc \in {"gate", "requeue", "exec"}
                        /\ worker[w].mission.mission_id = id}

GuardLead == StationLead("url", "Jane Doe", Null, Null, Null, "", "")

GuardInit ==
    /\ CoreStart
    /\ lead = GuardLead
    /\ blacklist = [P \in Providers |-> 0]
    /\ st = StationLocals("start", paused)
    /\ pushes = <<>>

GuardNext ==
    \/ \E w \in Workers :
        \/ CorePop(w)
        \/ CoreGate(w)
        \/ CoreRequeue(w)
        \/ WorkerExecute(w)
    \/ SolveBegin
    \/ RequireBalance
    \/ CreateTask
    \/ VlmInference
    \/ CheckLead
    \/ GatePoll
    \/ GateFinal
    \/ StationDispatch

GuardSpec == GuardInit /\ [][GuardNext]_vars

RecordInputs ==
    { <<"ZabaSearch", "phone", PyStr(<<"5", "5", "1">>)>>,
      <<"ZabaSearch", "phone", PyStr(<<" ", "5", "5", "1">>)>>,
      <<"ZabaSearch", "age", PyStr(<<"5", "1">>)>> }

RecordInit ==
    /\ EngineIdle
    /\ BridgeStart("off")
    /\ StationOff
    /\ ShieldOff
    /\ leads_to_enrich = <<>>
    /\ QueueOff
    /\ LoaderOff
    /\ RunsOff
    /\ AutoMapOff
    /\ TelemetryOff
    /\ RetryOff
    /\ GuardOff
    /\ recorder = [k \in Recorders |-> NoRecording("idle")]

\* What a record_data_point call leaves alone.
recordFrame ==
    <<engineVars, bridgeVars, lead, paused, st, pushes, call, routed, consensus, cmp,
      queueVars, apiVars, automap, telemetry, retry_op, guard>>

\* A set that would take one member for every caller that recorded the
\* lead.
MemberPerCaller(k, provider, data_type, h, lead_id) ==
    [provider |-> provider, data_type |-> data_type, h |-> h, lead_id |-> <<lead_id, k>>]

\* validator.py 117: r.sadd(key, lead_id); the member is the lead id.
Member(k, provider, data_type, h, lead_id) ==
    [provider |-> provider, data_type |-> data_type, h |-> h, lead_id |-> lead_id]

\* validator.py 109-115: the value is normalised (which may raise); an
\* empty value or a type other than phone and email returns False.
RecBegin(k) ==
    /\ recorder[k].pc \in {"idle", "done"}
    /\ \E input \in RecordInputs, lead_id \in LeadIds :
        LET v == norm_val(input[3])
            begun(at, ret) == Recording(at, input[1], input[2], input[3], lead_id, 0, ret)
        IN recorder' = [recorder EXCEPT ![k] =
                IF v = Raised THEN begun("done", "raise")
                ELSE IF v.s = <<>> \/ input[2] \notin {"phone", "email"}
                     THEN begun("done", "False")
                     ELSE begun("sadd", "none")]
    /\ UNCHANGED <<poison, points, blacklist>>
    /\ UNCHANGED recordFrame

\* validator.py 117-118: SADD and EXPIRE.
RecSadd(k) ==
    /\ recorder[k].pc = "sadd"
    /\ poison' = poison \cup {Member(k, recorder[k].provider, recorder[k].data_type,
                                     hash_val(recorder[k].value), recorder[k].lead_id)}
    /\ points' = points \cup {[provider |-> recorder[k].provider,
                               data_type |-> recorder[k].data_type,
                               value_id |-> ValueId(recorder[k].value),
                               lead_id |-> recorder[k].lead_id]}
    /\ recorder' = [recorder EXCEPT ![k].pc = "scard"]
    /\ UNCHANGED blacklist
    /\ UNCHANGED recordFrame

\* validator.py 119-120, 125: SCARD; at most 3: return False.
RecScard(k) ==
    /\ recorder[k].pc = "scard"
    /\ LET n == SCard(poison, recorder[k].provider, recorder[k].data_type,
                      hash_val(recorder[k].value))
       IN recorder' = [recorder EXCEPT
                ![k].n = n,
                ![k].pc = IF OverThreshold(n) THEN "blacklist" ELSE "done",
                ![k].ret = IF OverThreshold(n) THEN "none" ELSE "False"]
    /\ UNCHANGED <<poison, points, blacklist>>
    /\ UNCHANGED recordFrame

\* validator.py 121-122 with 76-77: r.set(key, "1", ex=BLACKLIST_TTL);
\* return True.
RecBlacklist(k) ==
    /\ recorder[k].pc = "blacklist"
    /\ blacklist' = [blacklist EXCEPT ![recorder[k].provider] = BLACKLIST_TTL]
    /\ recorder' = [recorder EXCEPT ![k].pc = "done", ![k].ret = "True"]
    /\ UNCHANGED <<poison, points>>
    /\ UNCHANGED recordFrame

\* validator.py 118: the set expires POISON_TTL after its last write.
RecExpires ==
    /\ \E m \in poison :
        /\ poison' = {x \in poison :
                ~(x.provider = m.provider /\ x.data_type = m.data_type /\ x.h = m.h)}
        /\ points' = {x \in points :
                ~(x.provider = m.provider /\ x.data_type = m.data_type
                  /\ x.value_id = PyStr(m.h))}
    /\ UNCHANGED <<blacklist, recorder>>
    /\ UNCHANGED recordFrame

RecordNext ==
    \/ \E k \in Recorders :
        \/ RecBegin(k)
        \/ RecSadd(k)
        \/ RecScard(k)
        \/ RecBlacklist(k)
    \/ RecExpires
    \/ BlacklistExpires

RecordSpec == RecordInit /\ [][RecordNext]_vars

\* The distinct leads a value of a provider was recorded for in the
\* window.
LeadsCounted(k, log) ==
    {q.lead_id : q \in {x \in log : /\ x.provider = recorder[k].provider
                                    /\ x.data_type = recorder[k].data_type
                                    /\ x.value_id = ValueId(recorder[k].value)}}

\* C37: a SADD for a lead already counted for the value leaves the count
\* as it was; the count a call reads is at most the number of distinct
\* leads the value was recorded for, so a call blacklists only after
\* more than 3 distinct leads; and every write of the blacklist entry
\* leaves it as one write does: set, with the TTL of 4 h.
C37_RecordIsIdempotent ==
    /\ [][\A k \in Recorders :
            (recorder[k].pc = "sadd" /\ recorder'[k].pc = "scard") =>
                LET count(store) == SCard(store, recorder[k].provider, recorder[k].data_type,
                                          hash_val(recorder[k].value))
                IN /\ recorder[k].lead_id \in LeadsCounted(k, points) => count(poison') = count(poison)
                   /\ count(poison') = Cardinality(LeadsCounted(k, points'))]_vars
    /\ [][\A k \in Recorders :
            (recorder[k].pc = "scard" /\ recorder'[k].pc # "scard") =>
                /\ recorder'[k].n = Cardinality(LeadsCounted(k, points))
                /\ recorder'[k].pc = "blacklist" <=> recorder'[k].n > 3]_vars
    /\ [][\A P \in Providers :
            blacklist'[P] > blacklist[P] =>
                \E k \in Recorders : /\ recorder[k].pc = "blacklist"
                                     /\ recorder[k].provider = P
                                     /\ recorder[k].n > 3]_vars
    /\ [][\A k \in Recorders :
            (recorder[k].pc = "blacklist" /\ recorder'[k].pc = "done") =>
                /\ blacklist' = [blacklist EXCEPT ![recorder[k].provider] = BLACKLIST_TTL]
                /\ blacklist[recorder[k].provider] > 0 => blacklist' = blacklist]_vars
    /\ [](\A P \in Providers : blacklist[P] \in {0, BLACKLIST_TTL})

\* Two callers read a count above 3 for one value; the first has written
\* the blacklist entry and the second is about to write it again.
C37_Witness ==
    /\ recorder["k1"].pc = "done" /\ recorder["k1"].ret = "True"
    /\ recorder["k2"].pc = "blacklist"
    /\ recorder["k1"].lead_id = recorder["k2"].lead_id
    /\ blacklist["ZabaSearch"] = BLACKLIST_TTL
    /\ Cardinality({m.lead_id : m \in poison}) = 4

(***************************************************************************)
(* Part XIV.  The telemetry of one mission: the worker's _emit_telemetry   *)
(* (workers.py 1084-1095), the station's consumer task (enrichment.py      *)
(* 216-232) and the wait that starts and stops it (315-333).               *)
(***************************************************************************)
\* has_sink: ctx.progress_queue is not None, and then the consumer task
\* is created before the wait (enrichment.py 317-318).
TelemetryInit ==
    /\ EngineIdle
    /\ BridgeStart("off")
    /\ StationOff
    /\ ShieldOff
    /\ leads_to_enrich = <<>>
    /\ QueueOff
    /\ LoaderOff
    /\ RunsOff
    /\ AutoMapOff
    /\ RetryOff
    /\ GuardOff
    /\ RecorderOff
    /\ \E sink \in BOOLEAN :
        telemetry = Telemetry("waiting", IF sink THEN "running" ELSE "none", FALSE, <<>>, 0, <<>>)

telemetryFrame ==
    <<engineVars, bridgeVars, stationVars, shieldVars, queueVars, apiVars,
      automap, retry_op, guard, recorder>>

\* workers.py 1093: r.lpush(f"chimera:telemetry:{mid}", ...); the mission
\* goes on until its timeout, whatever the station does.
EmitTelemetry ==
    /\ telemetry.wait # "off"
    /\ telemetry.produced < MaxTelemetry
    /\ telemetry' = [telemetry EXCEPT !.produced = @ + 1,
                                      !.list = LPush(@, telemetry.produced + 1)]
    /\ UNCHANGED telemetryFrame

\* A consumer that takes the entry at the tail (BRPOP).
PopIndexTail(list) == Len(list)

\* enrichment.py 220: r.blpop(key, 1) takes the entry at the head.
PopIndex(list) == 1

Without(list, n) == SubSeq(list, 1, n - 1) \o SubSeq(list, n + 1, Len(list))

\* enrichment.py 219-220: the loop, not stopped, calls blpop in a thread.
ConsumerPolls ==
    /\ telemetry.consumer = "running"
    /\ ~telemetry.polling
    /\ telemetry' = [telemetry EXCEPT !.polling = TRUE]
    /\ UNCHANGED telemetryFrame

\* enrichment.py 220-227: blpop returns an entry, which is emitted, or
\* nothing after 1 s.
ConsumerEmits ==
    /\ telemetry.consumer = "running"
    /\ telemetry.polling
    /\ IF telemetry.list = <<>>
       THEN telemetry' = [telemetry EXCEPT !.polling = FALSE]
       ELSE telemetry' = [telemetry EXCEPT
                !.polling = FALSE,
                !.list = Without(@, PopIndex(@)),
                !.emitted = Append(@, telemetry.list[PopIndex(telemetry.list)])]
    /\ UNCHANGED telemetryFrame

\* enrichment.py 320-331: the BRPOP of the reply returns, times out or
\* raises; finally sets the stop event, cancels the task and awaits it.
WaitEnds ==
    /\ telemetry.wait = "waiting"
    /\ \E kind \in {"reply", "timeout", "error"} :
        telemetry' = [telemetry EXCEPT
            !.wait = kind,
            !.consumer = IF @ = "running" THEN "stopped" ELSE @]
    /\ UNCHANGED telemetryFrame

\* The blpop that was in its thread when the task was cancelled returns;
\* what it popped is dropped with the task.
CancelledPollReturns ==
    /\ telemetry.consumer = "stopped"
    /\ telemetry.polling
    /\ telemetry' = [telemetry EXCEPT
            !.polling = FALSE,
            !.list = IF @ = <<>> THEN @ ELSE Without(@, PopIndex(@))]
    /\ UNCHANGED telemetryFrame

TelemetryNext ==
    \/ EmitTelemetry
    \/ ConsumerPolls
    \/ ConsumerEmits
    \/ WaitEnds
    \/ CancelledPollReturns

TelemetrySpec == TelemetryInit /\ [][TelemetryNext]_vars

\* C38: the entries emitted are entries the worker produced, in the order
\* it produced them and each at most once, and nothing is emitted once
\* the station's wait has ended.
C38_TelemetryInOrder ==
    /\ [](\A n \in 1..Len(telemetry.emitted) :
            /\ telemetry.emitted[n] \in 1..telemetry.produced
            /\ \A m \in 1..(n - 1) : telemetry.emitted[m] < telemetry.emitted[n])
    /\ [][telemetry.wait # "waiting" => telemetry'.emitted = telemetry.emitted]_vars

(***************************************************************************)
(* Part XV.  The DLQ retry endpoints (scrapegoat/main.py 558-631), Redis   *)
(* command by command, while the queue worker pushes onto failed_leads     *)
(* (redis_queue_worker.py 233-254).                                        *)
(***************************************************************************)
Range(list) == {list[n] : n \in 1..Len(list)}

Count(list, x) == Cardinality({n \in 1..Len(list) : list[n] = x})

\* main.py 581: the string "__REMOVED__".
Marker == QLead("marker", Null, Null, "")

\* failed_leads holds some payloads, the worker holds at most one more
\* that it is about to push there.
RetryInit ==
    /\ EngineIdle
    /\ BridgeStart("off")
    /\ StationOff
    /\ ShieldOff
    /\ leads_to_enrich = <<>>
    /\ failed_leads \in Arrangements(Payloads)
    /\ qworker = QWorker("off", NoPayload, [k \in LeadKeys |-> 0], 0)
    /\ qlog = NoQLog
    /\ LoaderOff
    /\ RunsOff
    /\ AutoMapOff
    /\ TelemetryOff
    /\ GuardOff
    /\ RecorderOff
    /\ \E held \in {h \in SUBSET (Payloads \ Range(failed_leads)) : Cardinality(h) <= 1} :
        retry_op = RetryOp("none", "idle", 0, <<>>, 0, 0, held, Range(failed_leads) \cup held)

retryFrame ==
    <<engineVars, bridgeVars, stationVars, shieldVars, qworker, qlog, apiVars,
      automap, telemetry, guard, recorder>>

\* main.py 571, 609: json.dumps(lead_data.get("lead", lead_data)): the
\* text of the object that was read.
OriginalLead(l) == [l EXCEPT !.json = "object"]

\* LRANGE key start stop, both ends included, from 0.
LRange(list, start, stop) ==
    IF start + 1 > Len(list) THEN <<>>
    ELSE SubSeq(list, start + 1, IF stop + 1 > Len(list) THEN Len(list) ELSE stop + 1)

\* LREM key 1 value: the first occurrence from the head goes.
LRem1(list, x) ==
    IF x \notin Range(list) THEN list
    ELSE LET n == CHOOSE m \in 1..Len(list) :
                    list[m] = x /\ \A j \in 1..(m - 1) : list[j] # x
         IN SubSeq(list, 1, n - 1) \o SubSeq(list, n + 1, Len(list))

\* redis_queue_worker.py 236, 248, 254: the worker LPUSHes a payload onto
\* failed_leads.
WorkerPushesFailed ==
    /\ retry_op.kind # "off"
    /\ \E l \in retry_op.held :
        /\ failed_leads' = LPush(failed_leads, l)
        /\ retry_op' = [retry_op EXCEPT !.held = @ \ {l}]
    /\ UNCHANGED leads_to_enrich
    /\ UNCHANGED retryFrame

\* main.py 563-573: LRANGE index index; nothing there: 404; a payload
\* that does not parse: 400; one that is no object: .get raises, 500.
RetryOneRead(index) ==
    /\ retry_op.at = "idle"
    /\ LET found == LRange(failed_leads, index, index) IN
        retry_op' = [retry_op EXCEPT
            !.kind = "one", !.index = index, !.read = found,
            !.at = IF found = <<>> \/ found[1].json # "object" THEN "done" ELSE "lpush",
            !.status = IF found = <<>> THEN 404
                       ELSE IF found[1].json = "invalid" THEN 400
                       ELSE IF found[1].json # "object" THEN 500 ELSE 0]
    /\ UNCHANGED <<leads_to_enrich, failed_leads>>
    /\ UNCHANGED retryFrame

\* main.py 576: LPUSH leads_to_enrich.
RetryOneLPush ==
    /\ retry_op.kind = "one" /\ retry_op.at = "lpush"
    /\ leads_to_enrich' = LPush(leads_to_enrich, OriginalLead(retry_op.read[1]))
    /\ retry_op' = [retry_op EXCEPT !.at = "lset"]
    /\ UNCHANGED failed_leads
    /\ UNCHANGED retryFrame

\* main.py 581: LSET failed_leads index marker; out of range it raises,
\* 500.
RetryOneLSet ==
    /\ retry_op.kind = "one" /\ retry_op.at = "lset"
    /\ IF retry_op.index + 1 <= Len(failed_leads)
       THEN /\ failed_leads' = [failed_leads EXCEPT ![retry_op.index + 1] = Marker]
            /\ retry_op' = [retry_op EXCEPT !.at = "lrem"]
       ELSE /\ retry_op' = [retry_op EXCEPT !.at = "done", !.status = 500]
            /\ UNCHANGED failed_leads
    /\ UNCHANGED leads_to_enrich
    /\ UNCHANGED retryFrame

\* main.py 582-588: LREM failed_leads 1 marker; 200.
RetryOneLRem ==
    /\ retry_op.kind = "one" /\ retry_op.at = "lrem"
    /\ failed_leads' = LRem1(failed_leads, Marker)
    /\ retry_op' = [retry_op EXCEPT !.at = "done", !.status = 200]
    /\ UNCHANGED leads_to_enrich
    /\ UNCHANGED retryFrame

\* main.py 601-608: LRANGE 0 -1; an empty list: 200 at once.
RetryAllRead ==
    /\ retry_op.at = "idle"
    /\ retry_op' = [retry_op EXCEPT
            !.kind = "all", !.read = failed_leads, !.n = 1,
            !.at = IF failed_leads = <<>> THEN "done" ELSE "loop",
            !.status = IF failed_leads = <<>> THEN 200 ELSE 0]
    /\ UNCHANGED <<leads_to_enrich, failed_leads>>
    /\ UNCHANGED retryFrame

\* main.py 612-620: one turn of the loop: an object is LPUSHed onto
\* leads_to_enrich, anything else is skipped.
RetryAllPush ==
    /\ retry_op.kind = "all" /\ retry_op.at = "loop"
    /\ retry_op.n <= Len(retry_op.read)
    /\ leads_to_enrich' =
          IF retry_op.read[retry_op.n].json = "object"
          THEN LPush(leads_to_enrich, OriginalLead(retry_op.read[retry_op.n]))
          ELSE leads_to_enrich
    /\ retry_op' = [retry_op EXCEPT !.n = @ + 1]
    /\ UNCHANGED failed_leads
    /\ UNCHANGED retryFrame

\* main.py 623-629: DEL failed_leads; 200.
RetryAllDelete ==
    /\ retry_op.kind = "all" /\ retry_op.at = "loop"
    /\ retry_op.n > Len(retry_op.read)
    /\ failed_leads' = <<>>
    /\ retry_op' = [retry_op EXCEPT !.at = "done", !.status = 200]
    /\ UNCHANGED leads_to_enrich
    /\ UNCHANGED retryFrame

RetryNext ==
    \/ WorkerPushesFailed
    \/ \E index \in 0..Len(failed_leads) : RetryOneRead(index)
    \/ RetryOneLPush
    \/ RetryOneLSet
    \/ RetryOneLRem
    \/ RetryAllRead
    \/ RetryAllPush
    \/ RetryAllDelete

RetrySpec == RetryInit /\ [][RetryNext]_vars

\* C39: once a retry request has returned, every lead that parses to an
\* object is in exactly one place (failed_leads, leads_to_enrich or the
\* worker's hands); after retry_one returned 200 the lead that was at the
\* index is on leads_to_enrich and no longer on failed_leads; after
\* retry_all every object that LRANGE returned is on leads_to_enrich.
C39_RetryConservesLeads ==
    retry_op.at = "done" =>
        /\ \A l \in retry_op.leads :
              l.json = "object" =>
                  Count(failed_leads, l) + Count(leads_to_enrich, l)
                      + (IF l \in retry_op.held THEN 1 ELSE 0) = 1
        /\ (retry_op.kind = "one" /\ retry_op.status = 200) =>
              /\ Count(leads_to_enrich, retry_op.read[1]) = 1
              /\ retry_op.read[1] \notin Range(failed_leads)
        /\ retry_op.kind = "all" =>
              \A l \in Range(retry_op.read) :
                  l.json = "object" => Count(leads_to_enrich, l) = 1

====
